---- MODULE Spec2Model ----
(***************************************************************************)
(* lookup-dns-cache: lookup() over the per-family IpAddressesTable, the    *)
(* ResolveTask of every "hostname_family" key, the outstanding dns.resolve4 *)
(* / dns.resolve6 calls and the setImmediate queue of deferred callbacks.   *)
(* Node runs every handler to completion on one thread, so each action is   *)
(* one handler: a lookup() call, the completion of one resolver call, one   *)
(* setImmediate callback, or the clock advancing between handlers.          *)
(***************************************************************************)
EXTENDS Integers, Sequences, FiniteSets, TLC

VARIABLES
    lookups,       \* the lookup() calls made so far: <<[hostname, family, all]>>
    delivered,     \* per lookup() call, the invocations of its callback, in order
    parallel,      \* per lookup() call, the state of async.parallel in _bothlookups
    resolveTasks,  \* IpAddressesTable._resolveTasks of both tables, by key string
    outstanding,   \* dns.resolve4/resolve6 calls issued and not yet completed
    resolveCount,  \* per key string, how many resolver calls were issued
    immediates,    \* the setImmediate queue (FIFO)
    now,           \* Date.now(), milliseconds
    selected,      \* history: per key, the addresses getNextAddress returned
                   \* from the current address list, in order
    served,        \* history: per key, the addresses handed to callbacks as
                   \* callback(null, address) from the current list, in order
    resolvedBy,    \* history: per key, the resolver call that set the address
                   \* list the task holds (0: none)
    overtaken,     \* history: per key, a lookup took an address from the list
                   \* while a callback that takes one when it runs was queued
    stale,         \* history: per key, a callback queued by an earlier
                   \* resolver call took an address from the list
    answered,      \* history: per key, the addresses the resolver returned
                   \* in its last successful call
    callCount,     \* history: how many times lookup() was called
    lastCall,      \* history: the arguments of the lookup() call of the last
                   \* step, <<>> when the last step was not a call
    thrown         \* history: the message of the Error the last lookup()
                   \* call threw ("" when it returned)

vars == <<lookups, delivered, parallel, resolveTasks, outstanding, resolveCount,
          immediates, now, selected, served, resolvedBy, overtaken, stale,
          answered, callCount, lastCall, thrown>>

----------------------------------------------------------------------------
(* Bounds *)

MaxBranches == 3     \* Spec: table.resolve calls made by lookup(); a dual lookup makes two
MaxKeyLookups == 3   \* SpecKey: lookup() calls, all for one key
MaxLiveLookups == 2  \* SpecLive: lookup() calls, all for one key
MaxArgsLookups == 1  \* SpecArgs: lookup() calls that passed validation
MaxArgsCalls == 2    \* SpecArgs: lookup() calls, rejected ones included
MaxNameLookups == 2  \* SpecNames: lookup() calls, each for one family
MaxResolves == 2     \* resolver calls counted per key
MaxTicks == 1         \* SpecKey: advances of the clock by TickMs
MaxDriftMs == 1      \* ms the clock advances while one answer is stamped

TickMs == 600

Hostnames == {"h"}
Families == {4, 6}
FamilyOptions == {0, 4, 6}   \* 0 stands for options.family === undefined
TTLs == {0, 1}

----------------------------------------------------------------------------
(* ResolveTask *)

STATUS_UNRESOLVED == 0
STATUS_RESOLVING == 1
\* Mutant: a resolved task keeps the status of a resolving one.
STATUS_RESOLVED_STUCK == STATUS_RESOLVING

STATUS_RESOLVED == 2

NoCursor == 0 - 1

FamilyString(ipVersion) == IF ipVersion = 4 THEN "4" ELSE "6"

\* Mutant: the key does not tell the hostnames apart.
HostIpKeyNoHostname(hostname, ipVersion) == "_" \o FamilyString(ipVersion)

\* Mutant: the key does not tell the families apart.
HostIpKeyNoFamily(hostname, ipVersion) == hostname \o "_" \o "4"

HostIpKey(hostname, ipVersion) == hostname \o "_" \o FamilyString(ipVersion)

\* The keys of the hostnames looked up, the empty string among them.
AllKeys == {HostIpKey(h, f) : h \in Hostnames \cup {""}, f \in Families}

NewResolveTask(ipVersion) ==
    [status |-> STATUS_UNRESOLVED,
     ipVersion |-> ipVersion,
     addresses |-> <<>>,
     rr |-> NoCursor,
     resolvedCallbacks |-> <<>>]

\* _extendAddresses: every address gets expiredTime and family. Date.now()
\* is read once per address, inside the forEach; reads[i] is the value read
\* for the i-th address.
extendAddresses(task, addresses, reads) ==
    [i \in 1..Len(addresses) |->
        [address |-> addresses[i].address,
         ttl |-> addresses[i].ttl,
         expiredTime |-> reads[i] + addresses[i].ttl * 1000,
         family |-> task.ipVersion]]

\* Mutant: the addresses returned are not stored in the task.
setAddressesNever(task, addresses, reads) == task

\* Mutant: the new array inherits the round-robin cursor of the old one.
setAddressesKeepCursor(task, addresses, reads) ==
    [task EXCEPT !.addresses = extendAddresses(task, addresses, reads)]

\* setAddresses: a fresh array, which carries no round-robin cursor yet.
setAddresses(task, addresses, reads) ==
    [task EXCEPT !.addresses = extendAddresses(task, addresses, reads),
                 !.rr = NoCursor]

\* JS values handed to the table's callbacks.
Undefined == [t |-> "undefined", items |-> <<>>]
ObjectValue(a) == [t |-> "object", items |-> <<a>>]
ArrayValue(as) == [t |-> "array", items |-> as]

\* Mutant: a list holding an address whose TTL is exhausted is not returned.
getAddressesUnlessExhausted(task) ==
    IF \E i \in 1..Len(task.addresses) : task.addresses[i].ttl = 0
    THEN Undefined
    ELSE ArrayValue(task.addresses)

getAddresses(task) == ArrayValue(task.addresses)

\* Mutant: the cursor never leaves the first element.
rrCursorStuck(task) == 0

\* rr(array): the element after the one returned last, cyclically; the first
\* call on an array returns its first element. The cursor lives on the array.
rrCursor(task) ==
    IF task.rr = NoCursor \/ Len(task.addresses) <= 1
        \/ task.rr >= Len(task.addresses) - 1
    THEN 0
    ELSE task.rr + 1

getNextAddress(task) ==
    [value |-> IF task.addresses = <<>> THEN Undefined
               ELSE ObjectValue(task.addresses[rrCursor(task) + 1]),
     task |-> [task EXCEPT !.rr = rrCursor(task)]]

----------------------------------------------------------------------------
(* Errors *)

NoError ==
    [code |-> "", errno |-> "", syscall |-> "", hostname |-> "", inst |-> <<>>]

Syscall(ipVersion) == IF ipVersion = 4 THEN "queryA" ELSE "queryAaaa"

UpstreamCodes == {"ENODATA", "ENOTFOUND", "ESERVFAIL"}

\* The errno property of an error object that has none.
ErrnoUndefined == "undefined"

\* The errno of the error dns.resolve4 / dns.resolve6 fails with depends on
\* the Node release: the code itself (Node 12 and earlier) or undefined
\* (Node 14 and later).
ResolverErrnos(code) == {code, ErrnoUndefined}

\* The hostname property of an error object that has none; no lookup of the
\* model asks for a hostname of this name.
HostnameUndefined == "undefined"

\* The hostname of the error dns.resolve4 / dns.resolve6 fails with: the
\* hostname resolved, and no such property when that is the empty string.
ResolverHostname(hostname) ==
    IF hostname = "" THEN HostnameUndefined ELSE hostname

\* The error object a resolver call produces; inst is the object's identity.
UpstreamError(call, code, errno) ==
    [code |-> code, errno |-> errno, syscall |-> Syscall(call.ipVersion),
     hostname |-> ResolverHostname(call.hostname),
     inst |-> <<"dns", call.key, call.id>>]

\* Mutant: the not-found error does not carry the resolver's syscall.
makeNotFoundErrorNoSyscall(hostname, syscall, maker) ==
    [code |-> "ENOTFOUND", errno |-> "ENOTFOUND", syscall |-> "",
     hostname |-> hostname, inst |-> <<"lookup", maker>>]

\* makeNotFoundError: a new Error object per call of the function; syscall
\* is "" when the function is called without one.
makeNotFoundError(hostname, syscall, maker) ==
    [code |-> "ENOTFOUND", errno |-> "ENOTFOUND", syscall |-> syscall,
     hostname |-> hostname, inst |-> <<"lookup", maker>>]

\* What dns.resolve4 / dns.resolve6 can answer with {ttl: true}.
Address(ipVersion, i) ==
    IF ipVersion = 4 THEN (IF i = 1 THEN "1.2.3.4" ELSE "5.6.7.8")
    ELSE (IF i = 1 THEN "0:1:2:3:4:5:6:7" ELSE "8:9:10:11:12:13:14:15")

ResolverOutputs(ipVersion) ==
    LET order == {<<>>, <<1>>, <<1, 2>>}
    IN {[i \in 1..Len(o) |-> [address |-> Address(ipVersion, o[i]), ttl |-> t]] :
            o \in order, t \in TTLs}

\* The ms the clock may still advance while an answer received at clock is
\* stamped.
DriftLeft(clock) ==
    IF (clock % TickMs) < MaxDriftMs THEN MaxDriftMs - (clock % TickMs) ELSE 0

\* The values n successive reads of Date.now() can give, the first of them
\* made at clock.
DateNowReads(n, clock) ==
    {r \in [1..n -> clock..(clock + DriftLeft(clock))] :
        /\ n > 0 => r[1] = clock
        /\ \A i \in 1..(n - 1) : r[i] <= r[i + 1]}

\* The clock after the reads.
ClockAfter(reads, clock) ==
    IF Len(reads) = 0 THEN clock ELSE reads[Len(reads)]

----------------------------------------------------------------------------
(* The program state as one record, so that a handler's calls compose.      *)
(* capped marks a step that would pass a bound of the model; with saturate  *)
(* the count of resolver calls stops at its bound instead and no step is    *)
(* cut off, which keeps an unbounded run of the program a cycle of states.  *)

Cur ==
    [lookups |-> lookups, delivered |-> delivered, parallel |-> parallel,
     resolveTasks |-> resolveTasks, outstanding |-> outstanding,
     resolveCount |-> resolveCount, immediates |-> immediates,
     selected |-> selected, served |-> served, resolvedBy |-> resolvedBy,
     overtaken |-> overtaken, stale |-> stale, answered |-> answered,
     callCount |-> callCount, lastCall |-> lastCall, thrown |-> thrown,
     now |-> now,
     reads |-> <<>>,
     capped |-> FALSE,
     saturate |-> FALSE]

CurLive == [Cur EXCEPT !.saturate = TRUE]

Commit(s) ==
    \E t \in {s} :
        /\ ~t.capped
        /\ lookups' = t.lookups
        /\ delivered' = t.delivered
        /\ parallel' = t.parallel
        /\ resolveTasks' = t.resolveTasks
        /\ outstanding' = t.outstanding
        /\ resolveCount' = t.resolveCount
        /\ immediates' = t.immediates
        /\ selected' = t.selected
        /\ served' = t.served
        /\ resolvedBy' = t.resolvedBy
        /\ overtaken' = t.overtaken
        /\ stale' = t.stale
        /\ answered' = t.answered
        /\ callCount' = t.callCount
        /\ lastCall' = t.lastCall
        /\ thrown' = t.thrown

\* Mutant: the callback is invoked at once instead of being queued.
setImmediateNow(s, entry) ==
    [s EXCEPT !.delivered[entry.callback.call] =
                Append(@, [error |-> entry.error, args |-> <<>>])]

\* setImmediate(() => callback(...)): the callback is queued.
setImmediate(s, entry) == [s EXCEPT !.immediates = Append(@, entry)]

\* An entry of the setImmediate queue. key names the task the closure holds;
\* via, index and at are history: the resolver call whose completion queued
\* the entry (0: a cache hit), the callback's place in the waiting list and
\* the time the entry was queued.
ValueEntry(callback, key, value, at) ==
    [callback |-> callback, kind |-> "value", key |-> key, error |-> NoError,
     value |-> value, via |-> 0, index |-> 0, at |-> at]

ErrorEntry(callback, key, error, via, index, at) ==
    [callback |-> callback, kind |-> "error", key |-> key, error |-> error,
     value |-> Undefined, via |-> via, index |-> index, at |-> at]

\* callback(null, resolveTask.getAddresses()) / getNextAddress(), evaluated
\* when the immediate runs.
DeferredEntry(callback, kind, key, via, index, at) ==
    [callback |-> callback, kind |-> kind, key |-> key, error |-> NoError,
     value |-> Undefined, via |-> via, index |-> index, at |-> at]

----------------------------------------------------------------------------
(* IpAddressesTable.resolve *)

\* this._resolve(hostname, ...): one dns.resolve4 / dns.resolve6 call, whose
\* completion closure keeps the options of the caller that launched it.
launchResolve(s, key, hostname, ipVersion, all) ==
    IF s.resolveCount[key] >= MaxResolves /\ ~s.saturate
    THEN [s EXCEPT !.capped = TRUE]
    ELSE [s EXCEPT !.resolveCount[key] =
                        IF @ >= MaxResolves THEN @ ELSE @ + 1,
                   !.outstanding = @ \cup
                       {[id |-> s.resolveCount[key] + 1, key |-> key,
                         hostname |-> hostname, ipVersion |-> ipVersion,
                         all |-> all, at |-> s.now]}]

\* Mutant: the addresses the task holds are never used to answer.
cacheHitNever(value) == FALSE

\* Mutant: an empty list counts as an answer.
cacheHitEmpty(value) == value # Undefined

\* if (!_.isEmpty(addresses)) / if (address): the task answers from its list.
cacheHit(value) == value # Undefined /\ value.items # <<>>

\* Mutant: a resolver call is launched whatever the task's status.
mustLaunchAlways(task) == TRUE

\* if (resolveTask.getStatus() === ResolveTask.STATUS_UNRESOLVED)
mustLaunch(task) == task.status = STATUS_UNRESOLVED

\* resolveTask.getNextAddress() on the task of key, with the history kept.
selectNext(s, key) ==
    LET next == getNextAddress(s.resolveTasks[key])
    IN  [value |-> next.value,
         state |-> [s EXCEPT
            !.resolveTasks[key] = next.task,
            !.selected[key] = IF next.value = Undefined THEN @
                              ELSE Append(@, next.value.items[1].address)]]

\* Mutant: the resolver call is launched without the callback of the caller
\* in the waiting list.
resolveLaunchFirst(s, hostname, ipVersion, all, callback) ==
    LET key == HostIpKey(hostname, ipVersion)
        found == key \in DOMAIN s.resolveTasks
        next == selectNext(s, key)
        value == IF all THEN getAddresses(s.resolveTasks[key]) ELSE next.value
        queued == \E i \in 1..Len(s.immediates) :
                    /\ s.immediates[i].kind = "getNextAddress"
                    /\ s.immediates[i].key = key
        s1 == IF found
              THEN IF all THEN s
                   ELSE [next.state EXCEPT !.overtaken[key] =
                            @ \/ (next.value # Undefined /\ queued)]
              ELSE [s EXCEPT !.resolveTasks =
                        (key :> NewResolveTask(ipVersion)) @@ s.resolveTasks]
        s2 == IF found /\ s1.resolveTasks[key].status = STATUS_RESOLVED
              THEN [s1 EXCEPT !.resolveTasks[key].status = STATUS_UNRESOLVED]
              ELSE s1
        s3 == [s2 EXCEPT !.resolveTasks[key].resolvedCallbacks =
                            Append(@, callback)]
    IN  IF found /\ cacheHit(value)
        THEN setImmediate(s1, ValueEntry(callback, key, value, s.now))
        ELSE IF mustLaunch(s3.resolveTasks[key])
        THEN launchResolve(
                [s2 EXCEPT !.resolveTasks[key].status = STATUS_RESOLVING],
                key, hostname, ipVersion, all)
        ELSE s3

resolve(s, hostname, ipVersion, all, callback) ==
    LET key == HostIpKey(hostname, ipVersion)
        found == key \in DOMAIN s.resolveTasks
        next == selectNext(s, key)
        value == IF all THEN getAddresses(s.resolveTasks[key]) ELSE next.value
        queued == \E i \in 1..Len(s.immediates) :
                    /\ s.immediates[i].kind = "getNextAddress"
                    /\ s.immediates[i].key = key
        s1 == IF found
              THEN IF all THEN s
                   ELSE [next.state EXCEPT !.overtaken[key] =
                            @ \/ (next.value # Undefined /\ queued)]
              ELSE [s EXCEPT !.resolveTasks =
                        (key :> NewResolveTask(ipVersion)) @@ s.resolveTasks]
        s2 == IF found /\ s1.resolveTasks[key].status = STATUS_RESOLVED
              THEN [s1 EXCEPT !.resolveTasks[key].status = STATUS_UNRESOLVED]
              ELSE s1
        s3 == [s2 EXCEPT !.resolveTasks[key].resolvedCallbacks =
                            Append(@, callback)]
    IN  IF found /\ cacheHit(value)
        THEN setImmediate(s1, ValueEntry(callback, key, value, s.now))
        ELSE IF mustLaunch(s3.resolveTasks[key])
        THEN launchResolve(
                [s3 EXCEPT !.resolveTasks[key].status = STATUS_RESOLVING],
                key, hostname, ipVersion, all)
        ELSE s3

\* getAfterResolvedCallbacks().forEach(callback => setImmediate(...)):
\* one entry per waiting callback, in the order of the list.
\* Mutant: the waiting callbacks are scheduled last first.
scheduleAllReversed(s, entries) ==
    [s EXCEPT !.immediates =
        @ \o [i \in 1..Len(entries) |-> entries[Len(entries) + 1 - i]]]

scheduleAll(s, entries) == [s EXCEPT !.immediates = @ \o entries]

\* Mutant: the waiting list is not cleared after a completion.
keepAfterResolvedCallbacks(s, key) == s

\* Mutant: only the first waiting callback is removed after a completion.
clearAfterResolvedCallbacksFirst(s, key) ==
    [s EXCEPT !.resolveTasks[key].resolvedCallbacks =
        IF @ = <<>> THEN @ ELSE Tail(@)]

clearAfterResolvedCallbacks(s, key) ==
    [s EXCEPT !.resolveTasks[key].resolvedCallbacks = <<>>]

\* Mutant: a failed resolver call leaves the task resolving.
setStatusKept(s, key) == s

\* if (error) resolveTask.setStatus(ResolveTask.STATUS_UNRESOLVED)
setStatusUnresolved(s, key) ==
    [s EXCEPT !.resolveTasks[key].status = STATUS_UNRESOLVED]

\* The completion closure of resolve (error, addresses) => {...}.
resolveDone(s, call, error, addresses) ==
    LET key == call.key
        task == s.resolveTasks[key]
        callbacks == task.resolvedCallbacks
        kind == IF call.all THEN "getAddresses" ELSE "getNextAddress"
        failed == [i \in 1..Len(callbacks) |->
                    ErrorEntry(callbacks[i], key, error, call.id, i - 1,
                               s.now)]
        resolved == [i \in 1..Len(callbacks) |->
                    DeferredEntry(callbacks[i], kind, key, call.id, i - 1,
                                  ClockAfter(s.reads, s.now))]
    IN  IF error # NoError
        THEN clearAfterResolvedCallbacks(
                scheduleAll(setStatusUnresolved(s, key), failed),
                key)
        ELSE clearAfterResolvedCallbacks(
                scheduleAll(
                    [s EXCEPT
                        !.resolveTasks[key] =
                            [setAddresses(task, addresses, s.reads) EXCEPT
                                !.status = STATUS_RESOLVED],
                        !.selected[key] = <<>>,
                        !.served[key] = <<>>,
                        !.resolvedBy[key] = call.id,
                        !.answered[key] = addresses,
                        !.overtaken[key] = FALSE,
                        !.stale[key] = FALSE],
                    resolved),
                key)

----------------------------------------------------------------------------
(* lookup.js *)

\* JS values handed to the callers of lookup().
StringV(a) == [t |-> "string", address |-> a, family |-> 0]
NumberV(f) == [t |-> "number", address |-> "", family |-> f]
RecordV(a, f) == [t |-> "record", address |-> a, family |-> f]
ArrayV(items) == [t |-> "array", items |-> items]
UndefinedV == [t |-> "undefined"]

\* One invocation of a callback: callback(error, ...args).
Invocation(error, args) == [error |-> error, args |-> args]

\* async.parallel over the two branches of _bothlookups: the results by
\* branch, the count of branches completed without error, whether the final
\* callback was called (it is wrapped in once()), and the branches whose
\* callback was called (each is wrapped in onlyOnce(), which throws).
NewParallel ==
    [results |-> [f \in Families |-> UndefinedV], completed |-> 0,
     called |-> FALSE, fired |-> {}, threw |-> FALSE]

\* The caller's callback.
userCallback(s, c, error, args) ==
    [s EXCEPT !.delivered[c] = Append(@, Invocation(error, args))]

\* _bothlookups, the final callback (error, records) => {...}.
bothlookupsDone(s, c, error) ==
    LET lk == s.lookups[c]
        ipv4records == s.parallel[c].results[4]
        ipv6records == s.parallel[c].results[6]
        result == ipv4records.items \o ipv6records.items
        notFound == makeNotFoundError(lk.hostname, "", <<c, 0>>)
    IN  IF error # NoError
        THEN userCallback(s, c, error, <<>>)
        ELSE IF lk.all
        THEN IF result = <<>>
             THEN userCallback(s, c, notFound, <<>>)
             ELSE userCallback(s, c, NoError, <<ArrayV(result)>>)
        ELSE IF ipv4records.items # <<>>
        THEN userCallback(s, c, NoError, ipv4records.items)
        ELSE IF ipv6records.items # <<>>
        THEN userCallback(s, c, NoError, ipv6records.items)
        ELSE userCallback(s, c, notFound, <<>>)

\* Mutant: the final callback is called when the first branch completes, the
\* branch that has not completed counting as an empty result.
parallelCallbackEager(s, c, ipVersion, error, args) ==
    LET p == s.parallel[c]
        result == IF Len(args) = 0 THEN UndefinedV
                  ELSE IF Len(args) = 1 THEN args[1]
                  ELSE ArrayV(args)
        stored == [p EXCEPT
                    !.results = [f \in Families |->
                        IF f = ipVersion THEN result
                        ELSE IF p.results[f] = UndefinedV THEN ArrayV(<<>>)
                        ELSE p.results[f]],
                    !.fired = @ \cup {ipVersion}]
    IN  IF p.called
        THEN [s EXCEPT !.parallel[c] = stored]
        ELSE bothlookupsDone(
                [s EXCEPT !.parallel[c] = [stored EXCEPT !.called = TRUE]],
                c, error)

\* async.parallel: the callback cb handed to a branch.
parallelCallback(s, c, ipVersion, error, args) ==
    LET p == s.parallel[c]
        result == IF Len(args) = 0 THEN UndefinedV
                  ELSE IF Len(args) = 1 THEN args[1]
                  ELSE ArrayV(args)
        stored == [p EXCEPT !.results[ipVersion] = result,
                            !.fired = @ \cup {ipVersion}]
    IN  IF ipVersion \in p.fired
        THEN [s EXCEPT !.parallel[c].threw = TRUE]
        ELSE IF error # NoError
        THEN IF p.called
             THEN [s EXCEPT !.parallel[c] = stored]
             ELSE bothlookupsDone(
                    [s EXCEPT !.parallel[c] = [stored EXCEPT !.called = TRUE]],
                    c, error)
        ELSE IF stored.completed + 1 = Cardinality(Families) /\ ~p.called
        THEN bothlookupsDone(
                [s EXCEPT !.parallel[c] =
                    [stored EXCEPT !.completed = @ + 1, !.called = TRUE]],
                c, NoError)
        ELSE [s EXCEPT !.parallel[c] = [stored EXCEPT !.completed = @ + 1]]

\* Mutant: a branch turns every error into an empty result.
branchCallbackNoErrors(s, c, ipVersion, error, args) ==
    IF error # NoError
    THEN parallelCallback(s, c, ipVersion, NoError, <<ArrayV(<<>>)>>)
    ELSE parallelCallback(s, c, ipVersion, NoError, args)

\* _bothlookups, the callback (error, ...records) => {...} of one branch.
branchCallback(s, c, ipVersion, error, args) ==
    IF error # NoError
    THEN IF error.code = "ENOTFOUND"
         THEN parallelCallback(s, c, ipVersion, NoError, <<ArrayV(<<>>)>>)
         ELSE parallelCallback(s, c, ipVersion, error, <<>>)
    ELSE parallelCallback(s, c, ipVersion, NoError, args)

\* Mutant: a not-found error of the resolver is replaced as well.
isNoDataOrNotFound(error) == error.code \in {"ENODATA", "ENOTFOUND"}

\* if (error.code === 'ENODATA')
isNoData(error) == error.code = "ENODATA"

\* The callback that _ipv4lookup / _ipv6lookup was given.
lookupCallback(s, callback, error, args) ==
    IF s.lookups[callback.call].family = 0
    THEN branchCallback(s, callback.call, callback.ipVersion, error, args)
    ELSE userCallback(s, callback.call, error, args)

\* _ipv4lookup / _ipv6lookup: the callback (error, records) => {...} given
\* to the table; callback names the lookup() call and the table.
tableCallback(s, callback, error, records) ==
    LET lk == s.lookups[callback.call]
    IN  IF error # NoError
        THEN IF isNoData(error)
             THEN lookupCallback(s, callback,
                    makeNotFoundError(lk.hostname, error.syscall,
                                      <<callback.call, callback.ipVersion>>),
                    <<>>)
             ELSE lookupCallback(s, callback, error, <<>>)
        ELSE IF records.t = "undefined"
        THEN resolve(s, lk.hostname, callback.ipVersion, lk.all, callback)
        ELSE IF records.t = "array"
        THEN lookupCallback(s, callback, NoError,
                <<ArrayV([i \in 1..Len(records.items) |->
                            RecordV(records.items[i].address,
                                    records.items[i].family)])>>)
        ELSE lookupCallback(
                [s EXCEPT !.served[HostIpKey(lk.hostname, callback.ipVersion)] =
                            Append(@, records.items[1].address)],
                callback, NoError,
                <<StringV(records.items[1].address),
                  NumberV(records.items[1].family)>>)

\* Mutant: every lookup goes to the table of family 4.
iplookupFour(s, c, ipVersion) ==
    resolve(s, s.lookups[c].hostname, 4, s.lookups[c].all,
            [call |-> c, ipVersion |-> 4])

iplookup(s, c, ipVersion) ==
    resolve(s, s.lookups[c].hostname, ipVersion, s.lookups[c].all,
            [call |-> c, ipVersion |-> ipVersion])

\* Mutant: the family-6 branch is not started by the lookup() call.
bothlookupsFourFirst(s, c) == iplookup(s, c, 4)

bothlookups(s, c) == iplookup(iplookup(s, c, 4), c, 6)

\* lookup(hostname, options, callback) with arguments that pass validation.
lookup(s, hostname, family, all) ==
    LET c == Len(s.lookups) + 1
        s0 == [s EXCEPT
                !.lookups = Append(@, [hostname |-> hostname,
                                       family |-> family, all |-> all]),
                !.delivered = Append(@, <<>>),
                !.parallel = Append(@, NewParallel)]
    IN  IF family = 0 THEN bothlookups(s0, c) ELSE iplookup(s0, c, family)

\* The JS values lookup() is called with: the type t, the text v of a
\* primitive, and what the properties family and all of the value read as.
JsValue(t, v) ==
    [t |-> t, v |-> v, family |-> "undefined", all |-> "undefined"]

OptionsObject(family, all) ==
    [t |-> "object", v |-> "", family |-> family, all |-> all]

FunctionValue == JsValue("function", "")

HostnameValues ==
    {JsValue("string", "h"), JsValue("string", ""),
     JsValue("boolean", "false"), JsValue("boolean", "true"),
     JsValue("null", ""), JsValue("undefined", ""),
     JsValue("number", "0"), JsValue("number", "1"), JsValue("number", "NaN"),
     JsValue("array", ""), JsValue("object", ""), FunctionValue,
     JsValue("buffer", "")}

OptionsValues ==
    {FunctionValue,
     JsValue("number", "4"), JsValue("number", "6"), JsValue("number", "5"),
     JsValue("undefined", ""), JsValue("null", ""), JsValue("boolean", "false"),
     JsValue("string", "1"), JsValue("array", ""), JsValue("buffer", "")}
    \cup {OptionsObject(family, all) :
            family \in {"undefined", "4", "6", "5"},
            all \in {"undefined", "false", "true"}}

CallbackValues == {FunctionValue, JsValue("undefined", "")}

\* The argument lists lookup() is called with: any hostname with options
\* that pass or fail their check, and any options with a string hostname.
ArgumentLists ==
    (HostnameValues
        \X {OptionsObject("undefined", "undefined"), JsValue("null", "")}
        \X CallbackValues)
    \cup ({JsValue("string", "h"), JsValue("string", "")}
            \X OptionsValues \X CallbackValues)

\* lodash: _.isString, _.isFunction, _.isNumber (NaN is a number), _.isObject
\* (arrays, Buffers and functions are objects).
isString(x) == x.t = "string"
isFunction(x) == x.t = "function"
isNumber(x) == x.t = "number"
isObject(x) == x.t \in {"object", "array", "buffer", "function"}

\* throw new Error(message)
throw(s, message) == [s EXCEPT !.thrown = message]

\* Mutant: a number given as options is taken as an options object without
\* a family.
normalizeOptionsNoFamily(options) ==
    IF isFunction(options) THEN OptionsObject("undefined", "undefined")
    ELSE IF isNumber(options) THEN OptionsObject("undefined", "undefined")
    ELSE options

\* options = {} for a function, options = {family: options} for a number.
normalizeOptions(options) ==
    IF isFunction(options) THEN OptionsObject("undefined", "undefined")
    ELSE IF isNumber(options) THEN OptionsObject(options.v, "undefined")
    ELSE options

\* callback = options for a function.
normalizeCallback(options, callback) ==
    IF isFunction(options) THEN options ELSE callback

\* Mutant: a family that is not 4 or 6 is taken as undefined.
validFamilyAny(family) == TRUE

\* switch (options.family): case 4, case 6, case undefined.
validFamily(family) == family \in {"4", "6", "undefined"}

\* Mutant: the callback is checked after the lookup was dispatched.
lookupArgumentsLateThrow(s, hostname, options, callback) ==
    LET opts == normalizeOptions(options)
        cb == normalizeCallback(options, callback)
        family == IF opts.family = "4" THEN 4
                  ELSE IF opts.family = "6" THEN 6 ELSE 0
        s0 == [s EXCEPT !.callCount = @ + 1,
                        !.lastCall = <<hostname, options, callback>>,
                        !.thrown = ""]
    IN  IF ~isString(hostname)
        THEN throw(s0, "hostname must be a string")
        ELSE IF ~isFunction(options) /\ ~isNumber(options) /\ ~isObject(options)
        THEN throw(s0, "options must be an object or an ip version number")
        ELSE IF ~validFamily(opts.family)
        THEN throw(s0, "invalid family number, must be one of the {4, 6} or undefined")
        ELSE IF ~isFunction(cb)
        THEN throw(lookup(s0, hostname.v, family, opts.all = "true"),
                   "callback param must be a function")
        ELSE lookup(s0, hostname.v, family, opts.all = "true")

\* lookup(hostname, options, callback) with any arguments: the checks, the
\* normalization of options and callback, and the switch on options.family.
lookupArguments(s, hostname, options, callback) ==
    LET opts == normalizeOptions(options)
        cb == normalizeCallback(options, callback)
        family == IF opts.family = "4" THEN 4
                  ELSE IF opts.family = "6" THEN 6 ELSE 0
        s0 == [s EXCEPT !.callCount = @ + 1,
                        !.lastCall = <<hostname, options, callback>>,
                        !.thrown = ""]
    IN  IF ~isString(hostname)
        THEN throw(s0, "hostname must be a string")
        ELSE IF ~isFunction(options) /\ ~isNumber(options) /\ ~isObject(options)
        THEN throw(s0, "options must be an object or an ip version number")
        ELSE IF ~isFunction(cb)
        THEN throw(s0, "callback param must be a function")
        ELSE IF ~validFamily(opts.family)
        THEN throw(s0, "invalid family number, must be one of the {4, 6} or undefined")
        ELSE lookup(s0, hostname.v, family, opts.all = "true")

\* The call of lookup() has returned or thrown: the event loop runs.
returned(s) == [s EXCEPT !.lastCall = <<>>, !.thrown = ""]

\* One callback of the setImmediate queue runs.
runImmediate(s) ==
    LET e == Head(s.immediates)
        s0 == [s EXCEPT !.immediates = Tail(@)]
        next == selectNext(s0, e.key)
    IN  IF e.kind = "error"
        THEN tableCallback(s0, e.callback, e.error, Undefined)
        ELSE IF e.kind = "value"
        THEN tableCallback(s0, e.callback, NoError, e.value)
        ELSE IF e.kind = "getAddresses"
        THEN tableCallback(s0, e.callback, NoError,
                           getAddresses(s0.resolveTasks[e.key]))
        ELSE tableCallback(
                [next.state EXCEPT !.stale[e.key] =
                    @ \/ (next.value # Undefined
                            /\ e.via # s.resolvedBy[e.key])],
                e.callback, NoError, next.value)

----------------------------------------------------------------------------
(* Actions *)

Init ==
    /\ lookups = <<>>
    /\ delivered = <<>>
    /\ parallel = <<>>
    /\ resolveTasks = <<>>
    /\ outstanding = {}
    /\ resolveCount = [k \in AllKeys |-> 0]
    /\ immediates = <<>>
    /\ now = 0
    /\ selected = [k \in AllKeys |-> <<>>]
    /\ served = [k \in AllKeys |-> <<>>]
    /\ resolvedBy = [k \in AllKeys |-> 0]
    /\ overtaken = [k \in AllKeys |-> FALSE]
    /\ stale = [k \in AllKeys |-> FALSE]
    /\ answered = [k \in AllKeys |-> <<>>]
    /\ callCount = 0
    /\ lastCall = <<>>
    /\ thrown = ""

Branches(family) == IF family = 0 THEN 2 ELSE 1

BranchesUsed ==
    Len(lookups) + Cardinality({c \in 1..Len(lookups) : lookups[c].family = 0})

Lookup ==
    /\ \E hostname \in Hostnames, family \in FamilyOptions, all \in BOOLEAN :
        /\ BranchesUsed + Branches(family) <= MaxBranches
        /\ Commit(lookup(Cur, hostname, family, all))
    /\ UNCHANGED now

ResolverError ==
    /\ \E call \in outstanding, code \in UpstreamCodes :
        \E errno \in ResolverErrnos(code) :
            Commit(resolveDone(
                    returned([Cur EXCEPT !.outstanding = @ \ {call}]),
                    call, UpstreamError(call, code, errno), <<>>))
    /\ UNCHANGED now

ResolverSuccess ==
    \E call \in outstanding :
        \E addresses \in ResolverOutputs(call.ipVersion) :
            \E reads \in DateNowReads(Len(addresses), now) :
                /\ Commit(resolveDone(
                        returned([Cur EXCEPT !.outstanding = @ \ {call},
                                             !.reads = reads]),
                        call, NoError, addresses))
                /\ now' = ClockAfter(reads, now)

RunImmediate ==
    /\ immediates # <<>>
    /\ Commit(runImmediate(returned(Cur)))
    /\ UNCHANGED now

\* The clock advancing between two handlers.
Tick ==
    /\ now < MaxTicks * TickMs
    /\ now' = now + TickMs
    /\ UNCHANGED <<lookups, delivered, parallel, resolveTasks, outstanding,
                   resolveCount, immediates, selected, served, resolvedBy,
                   overtaken, stale, answered, callCount, lastCall, thrown>>

\* Lookups of every family; the clock moves only while an answer is stamped
\* (the time passing between handlers is followed under SpecKey).
Next == Lookup \/ ResolverError \/ ResolverSuccess \/ RunImmediate

Spec == Init /\ [][Next]_vars

\* The lookups of one key, lookup("h", {family: 4, all}, callback).
KeyLookup ==
    /\ Len(lookups) < MaxKeyLookups
    /\ \E all \in BOOLEAN : Commit(lookup(Cur, "h", 4, all))
    /\ UNCHANGED now

NextKey ==
    KeyLookup \/ ResolverError \/ ResolverSuccess \/ RunImmediate \/ Tick

SpecKey == Init /\ [][NextKey]_vars

\* The same handlers with the count of resolver calls saturating, under the
\* scheduling Node guarantees: a queued setImmediate callback runs, and (the
\* claims' proviso) every resolver call issued completes.
LiveLookup ==
    /\ Len(lookups) < MaxLiveLookups
    /\ \E all \in BOOLEAN : Commit(lookup(CurLive, "h", 4, all))
    /\ UNCHANGED now

LiveResolverError ==
    /\ \E call \in outstanding, code \in UpstreamCodes :
        \E errno \in ResolverErrnos(code) :
            Commit(resolveDone([CurLive EXCEPT !.outstanding = @ \ {call}],
                               call, UpstreamError(call, code, errno), <<>>))
    /\ UNCHANGED now

LiveResolverSuccess ==
    \E call \in outstanding :
        \E addresses \in ResolverOutputs(call.ipVersion) :
            \E reads \in DateNowReads(Len(addresses), now) :
                /\ Commit(resolveDone([CurLive EXCEPT
                                        !.outstanding = @ \ {call},
                                        !.reads = reads],
                                   call, NoError, addresses))
                /\ now' = ClockAfter(reads, now)

LiveRunImmediate ==
    /\ immediates # <<>>
    /\ Commit(runImmediate(CurLive))
    /\ UNCHANGED now

NextLive ==
    LiveLookup \/ LiveResolverError \/ LiveResolverSuccess \/ LiveRunImmediate

SpecLive ==
    /\ Init
    /\ [][NextLive]_vars
    /\ WF_vars(LiveRunImmediate)
    /\ WF_vars(LiveResolverError \/ LiveResolverSuccess)

\* lookup() called with any arguments.
ArgsLookup ==
    /\ callCount < MaxArgsCalls
    /\ \E args \in ArgumentLists :
        /\ Len(lookupArguments(Cur, args[1], args[2], args[3]).lookups)
                <= MaxArgsLookups
        /\ Commit(lookupArguments(Cur, args[1], args[2], args[3]))
    /\ UNCHANGED now

NextArgs == ArgsLookup \/ ResolverError \/ ResolverSuccess \/ RunImmediate

SpecArgs == Init /\ [][NextArgs]_vars

----------------------------------------------------------------------------
(* Properties *)

OutstandingFor(key) == {call \in outstanding : call.key = key}

Waiting(key) ==
    IF key \in DOMAIN resolveTasks THEN resolveTasks[key].resolvedCallbacks
    ELSE <<>>

\* C1: for every key at most one resolver call is outstanding after any
\* step, and no step issues a resolver call for a key while a call for that
\* key is outstanding: a lookup arriving then attaches to the waiting list.
C1_SingleFlight ==
    [][\A key \in AllKeys :
        /\ Cardinality(OutstandingFor(key)') <= 1
        /\ OutstandingFor(key) # {} => resolveCount'[key] = resolveCount[key]
      ]_vars

\* Two lookups wait on the one outstanding call of a key, the only resolver
\* call made for it.
C1_Witness ==
    \E key \in AllKeys :
        /\ Len(Waiting(key)) >= 2
        /\ Cardinality(OutstandingFor(key)) = 1
        /\ resolveCount[key] = 1

\* C2: the callback of every lookup() call has been invoked at most once.
C2_AtMostOnce ==
    \A c \in 1..Len(lookups) : Len(delivered[c]) <= 1

\* A dual-family lookup and a single-family lookup that shared a resolver
\* call have both been answered, after one resolver call per key.
C2_Witness ==
    /\ Len(lookups) = 2
    /\ lookups[1].family = 0
    /\ lookups[2].family = 4
    /\ \A c \in 1..2 : Len(delivered[c]) = 1
    /\ \A f \in Families : resolveCount[HostIpKey("h", f)] = 1

\* C3: every lookup() call made is eventually answered: its callback is
\* invoked, when every resolver call completes and every queued immediate
\* runs.
C3_EventuallyAnswered ==
    \A c \in 1..MaxLiveLookups :
        (Len(lookups) >= c) ~> (Len(delivered) >= c /\ Len(delivered[c]) >= 1)

Populated(key) ==
    key \in DOMAIN resolveTasks /\ resolveTasks[key].addresses # <<>>

AddressesOf(key) ==
    {resolveTasks[key].addresses[i] : i \in 1..Len(resolveTasks[key].addresses)}

\* No address of the entry has reached its expiry time / one has passed it.
Unexpired(key) == \A a \in AddressesOf(key) : now < a.expiredTime
Expired(key) == \E a \in AddressesOf(key) : now > a.expiredTime

\* The step is a lookup() call of a single family whose key is key.
LookupStepFor(key) ==
    /\ Len(lookups') = Len(lookups) + 1
    /\ lookups'[Len(lookups')].family # 0
    /\ HostIpKey(lookups'[Len(lookups')].hostname,
                 lookups'[Len(lookups')].family) = key

\* The step queued, last, the answer of the new lookup() call from the
\* addresses the task of key holds.
AnsweredFromCache(key) ==
    /\ Len(immediates') = Len(immediates) + 1
    /\ LET e == immediates'[Len(immediates')]
       IN  /\ e.kind = "value"
           /\ e.callback.call = Len(lookups')
           /\ e.value.items # <<>>
           /\ \A i \in 1..Len(e.value.items) :
                e.value.items[i] \in AddressesOf(key)

\* C4: while a key holds addresses none of which has reached its expiry
\* time, no step issues a resolver call for the key, and a lookup of the key
\* is answered from the addresses held.
C4_CachedNoResolve ==
    [][\A key \in AllKeys :
        Populated(key) /\ Unexpired(key) =>
            /\ resolveCount'[key] = resolveCount[key]
            /\ LookupStepFor(key) => AnsweredFromCache(key)
      ]_vars

\* A lookup made after the clock advanced, before the expiry time of the
\* addresses, has its answer from the cache queued, after a single resolver
\* call for the key.
C4_Witness ==
    \E key \in AllKeys, i \in 1..Len(immediates) :
        /\ Populated(key) /\ Unexpired(key)
        /\ resolveCount[key] = 1
        /\ immediates[i].kind = "value"
        /\ immediates[i].key = key
        /\ immediates[i].at > 0

\* C5: a lookup of a key made after the expiry time of an address the key
\* holds issues a new resolver call for the key.
C5_ExpiredResolves ==
    [][\A key \in AllKeys :
        Populated(key) /\ Expired(key) /\ LookupStepFor(key) =>
            /\ resolveCount'[key] = resolveCount[key] + 1
            /\ ~AnsweredFromCache(key)
      ]_vars

\* The shapes of a successful answer: (null, address, family) and
\* (null, [{address, family}, ...]).
IsSingleResult(args) ==
    Len(args) = 2 /\ args[1].t = "string" /\ args[2].t = "number"

IsArrayResult(args) ==
    /\ Len(args) = 1
    /\ args[1].t = "array"
    /\ \A i \in 1..Len(args[1].items) : args[1].items[i].t = "record"

\* C6: every successful answer has the shape its own lookup() call asked for
\* with options.all.
C6_ShapeByOwnAll ==
    \A c \in 1..Len(lookups) : \A i \in 1..Len(delivered[c]) :
        delivered[c][i].error = NoError =>
            IF lookups[c].all THEN IsArrayResult(delivered[c][i].args)
            ELSE IsSingleResult(delivered[c][i].args)

\* The step runs the callback at the head of the setImmediate queue.
RunsHead == Len(immediates') = Len(immediates) - 1

\* The addresses an answer carries.
AddressesIn(args) ==
    {args[i].address : i \in {j \in 1..Len(args) : args[j].t = "string"}}
    \cup UNION {{args[i].items[j].address : j \in 1..Len(args[i].items)} :
                    i \in {j \in 1..Len(args) : args[j].t = "array"}}

\* C7: when the callback a resolver call's completion queued for a waiting
\* single-family lookup runs, the lookup is answered with that call's
\* outcome: with an error if the call failed, with a success taken from the
\* address list of that call if it succeeded.
C7_OutcomeOfTheCall ==
    [][RunsHead /\ Head(immediates).via > 0
            /\ lookups[Head(immediates).callback.call].family # 0 =>
        LET e == Head(immediates)
            c == e.callback.call
        IN  /\ Len(delivered'[c]) = Len(delivered[c]) + 1
            /\ LET d == delivered'[c][Len(delivered'[c])]
               IN  IF e.kind = "error" THEN d.error # NoError
                   ELSE /\ d.error = NoError
                        /\ resolvedBy[e.key] = e.via
                        /\ \A a \in AddressesIn(d.args) :
                            \E x \in AddressesOf(e.key) : x.address = a
      ]_vars

\* The resolver's error object of the call that queued entry e.
ErrorOfCall(e, calls) ==
    UpstreamError([key |-> e.key, id |-> e.via,
                   hostname |-> calls[e.callback.call].hostname,
                   ipVersion |-> e.callback.ipVersion],
                  e.error.code, e.error.errno)

\* C8: every error queued for a waiting callback is the error object of the
\* resolver call that failed, the same for all callbacks of that call; and
\* when it is run the caller who is still unanswered receives that object
\* itself, unless it is the no-data error that lookup() replaces (ENODATA,
\* and for a branch of a dual lookup also the not-found error).
C8_ErrorPassedThrough ==
    [][/\ \A i \in 1..Len(immediates') :
            immediates'[i].kind = "error" =>
                /\ immediates'[i].error = ErrorOfCall(immediates'[i], lookups')
                /\ \A j \in 1..Len(immediates') :
                    /\ immediates'[j].kind = "error"
                    /\ immediates'[j].key = immediates'[i].key
                    /\ immediates'[j].via = immediates'[i].via
                    => immediates'[j].error = immediates'[i].error
       /\ RunsHead /\ Head(immediates).kind = "error" =>
            LET e == Head(immediates)
                c == e.callback.call
            IN  \/ lookups[c].family # 0 /\ e.error.code # "ENODATA"
                \/ /\ lookups[c].family = 0
                   /\ e.error.code \notin {"ENODATA", "ENOTFOUND"}
                   /\ ~parallel[c].called
                => delivered'[c] = Append(delivered[c], Invocation(e.error, <<>>))
      ]_vars

\* Two lookups that waited on the same failed resolver call were answered
\* with the same error object of the resolver.
C8_Witness ==
    \E c1, c2 \in 1..Len(lookups) :
        /\ c1 # c2
        /\ Len(delivered[c1]) = 1
        /\ delivered[c1] = delivered[c2]
        /\ delivered[c1][1].error.code = "ESERVFAIL"
        /\ delivered[c1][1].error.inst[1] = "dns"

\* Element k mod n (k from 0) of the address list of key.
Cyclic(key, k) ==
    resolveTasks[key].addresses[
        (k % Len(resolveTasks[key].addresses)) + 1].address

\* C9 as stated: the k-th address handed to a single-address callback from
\* the list of a key is element k mod n of the list.
C9_DeliveryOrder ==
    \A key \in AllKeys : Populated(key) =>
        \A j \in 1..Len(served[key]) : served[key][j] = Cyclic(key, j - 1)

\* C9 amended: the k-th address taken from the list of a key is element
\* k mod n of the list, and the addresses are handed to the callbacks in the
\* order taken unless a lookup took one from the cache while a callback of
\* the resolution was still queued.
C9_SelectionOrder ==
    \A key \in AllKeys : Populated(key) =>
        /\ \A j \in 1..Len(selected[key]) :
                selected[key][j] = Cyclic(key, j - 1)
        /\ ~overtaken[key] =>
                /\ Len(served[key]) <= Len(selected[key])
                /\ served[key] = SubSeq(selected[key], 1, Len(served[key]))

\* Three single-address answers from a list of two: first, second, first.
C9_Witness ==
    \E key \in AllKeys :
        /\ Populated(key)
        /\ Len(resolveTasks[key].addresses) = 2
        /\ ~overtaken[key]
        /\ served[key] = <<Cyclic(key, 0), Cyclic(key, 1), Cyclic(key, 0)>>

\* The step runs the callback that the resolver call which set the list of
\* its key queued for a single-address answer.
RunsWaiter ==
    /\ RunsHead
    /\ Head(immediates).kind = "getNextAddress"
    /\ Head(immediates).via = resolvedBy[Head(immediates).key]
    /\ Populated(Head(immediates).key)

\* The callback at the head is handed element i mod n, i its place in the
\* waiting list.
WaiterGetsOwnElement ==
    LET e == Head(immediates)
    IN  served'[e.key] = Append(served[e.key], Cyclic(e.key, e.index))

\* C10 as stated: the i-th caller coalesced on a resolution receives element
\* i mod n of its list.
C10_ByAttachOrder == [][RunsWaiter => WaiterGetsOwnElement]_vars

\* C10 amended: the callbacks of one resolver call are queued in the order
\* the callers attached, and the i-th receives element i mod n of the list
\* provided no other address was taken from the list before it ran: none by
\* a lookup answered from the cache, none by a callback still queued from an
\* earlier resolver call of the key.
C10_AttachOrderUndisturbed ==
    [][/\ \A p, q \in 1..Len(immediates') :
            /\ p < q
            /\ immediates'[p].via > 0
            /\ immediates'[p].key = immediates'[q].key
            /\ immediates'[p].via = immediates'[q].via
            => immediates'[p].index < immediates'[q].index
       /\ /\ RunsWaiter
          /\ ~overtaken[Head(immediates).key]
          /\ ~stale[Head(immediates).key]
          => /\ WaiterGetsOwnElement
             /\ LET e == Head(immediates)
                    c == e.callback.call
                IN  lookups[c].family # 0 =>
                        delivered'[c] = Append(delivered[c],
                            Invocation(NoError,
                                <<StringV(Cyclic(e.key, e.index)),
                                  NumberV(e.callback.ipVersion)>>))
      ]_vars

\* Two callers coalesced on a resolver call that returned two addresses were
\* answered with the first and with the second address.
C10_Witness ==
    \E key \in AllKeys :
        /\ Populated(key)
        /\ resolveCount[key] = 1
        /\ ~overtaken[key]
        /\ Len(lookups) >= 2
        /\ \A c \in 1..2 :
            /\ ~lookups[c].all
            /\ delivered[c] =
                <<Invocation(NoError, <<StringV(Cyclic(key, c - 1)),
                                        NumberV(resolveTasks[key].ipVersion)>>)>>
        /\ Cyclic(key, 0) # Cyclic(key, 1)

\* The task of a key, the calls outstanding and counted for it: all that the
\* tables hold about the key.
KeyState(key) ==
    [task |-> IF key \in DOMAIN resolveTasks THEN <<resolveTasks[key]>>
              ELSE <<>>,
     outstanding |-> OutstandingFor(key),
     resolveCount |-> resolveCount[key]]

\* The addresses the resolver of a family can return.
FamilyAddresses(ipVersion) == {Address(ipVersion, i) : i \in 1..2}

\* The values of a successful answer belong to the family ipVersion.
OfFamily(args, ipVersion) ==
    /\ AddressesIn(args) \subseteq FamilyAddresses(ipVersion)
    /\ \A i \in 1..Len(args) :
        /\ args[i].t = "number" => args[i].family = ipVersion
        /\ args[i].t = "array" =>
            \A j \in 1..Len(args[i].items) :
                args[i].items[j].family = ipVersion

\* C11: the two families of a hostname are keys of their own. A lookup of a
\* key that has no task yet issues a resolver call for it whatever the other
\* key holds, and leaves the other key as it was; the completion of a call
\* leaves the task of the other key as it was and queues callbacks of its own
\* key only; every queued callback belongs to the key of its lookup and
\* family; and a single-family lookup is answered with addresses of its own
\* family only.
C11_KeysIndependent ==
    [][/\ \A key \in AllKeys : LookupStepFor(key) =>
            /\ key \notin DOMAIN resolveTasks =>
                /\ resolveCount'[key] = 1
                /\ Cardinality(OutstandingFor(key)') = 1
            /\ \A other \in AllKeys \ {key} : KeyState(other)' = KeyState(other)
       /\ \A call \in outstanding : call \notin outstanding' =>
            /\ \A other \in AllKeys \ {call.key} :
                KeyState(other)' = KeyState(other)
            /\ \A i \in (Len(immediates) + 1)..Len(immediates') :
                /\ immediates'[i].key = call.key
                /\ immediates'[i].callback.ipVersion = call.ipVersion
       /\ \A i \in 1..Len(immediates') :
            LET e == immediates'[i]
            IN  /\ e.key = HostIpKey(lookups'[e.callback.call].hostname,
                                     e.callback.ipVersion)
                /\ lookups'[e.callback.call].family \in {0, e.callback.ipVersion}
                /\ \A j \in 1..Len(e.value.items) :
                    e.value.items[j].family = e.callback.ipVersion
       /\ \A c \in 1..Len(lookups') : \A i \in 1..Len(delivered'[c]) :
            lookups'[c].family # 0 /\ delivered'[c][i].error = NoError =>
                OfFamily(delivered'[c][i].args, lookups'[c].family)
      ]_vars

\* A family-4 and a family-6 lookup of the same hostname: the key of family
\* 4 holds addresses, and the family-6 lookup was answered by the resolver
\* call of its own key.
C11_Witness ==
    /\ Len(lookups) = 2
    /\ lookups[1].family = 4
    /\ lookups[2].family = 6
    /\ Populated(HostIpKey("h", 4))
    /\ resolvedBy[HostIpKey("h", 6)] = 1
    /\ Len(delivered[1]) = 1
    /\ Len(delivered[2]) = 1
    /\ delivered[2][1].error = NoError
    /\ Len(immediates) = 0

\* The step is made for a lookup() call of the single family ipVersion: the
\* call itself, or a queued callback of it running.
StepOfFamily(ipVersion) ==
    \/ /\ Len(lookups') = Len(lookups) + 1
       /\ lookups'[Len(lookups')].family = ipVersion
    \/ /\ RunsHead
       /\ lookups[Head(immediates).callback.call].family = ipVersion

\* C12: a step made for a lookup() call with options.family 4 (6) issues
\* resolver calls of family 4 (6) only, and leaves the task of the other
\* family's key (its addresses and waiting list) and its resolver calls as
\* they were.
C12_OnlyOwnFamily ==
    [][\A f \in Families : StepOfFamily(f) =>
        /\ \A call \in outstanding' \ outstanding :
            /\ call.ipVersion = f
            /\ call.key = HostIpKey(call.hostname, f)
        /\ \A h \in Hostnames, g \in Families \ {f} :
            KeyState(HostIpKey(h, g))' = KeyState(HostIpKey(h, g))
      ]_vars

\* Lookups of family 6 only, the first answered with an address after a
\* call of the family-6 resolver, while the key of family 4 has no task and
\* no resolver call.
C12_Witness ==
    /\ Len(lookups) >= 1
    /\ \A c \in 1..Len(lookups) : lookups[c].family = 6
    /\ Len(delivered[1]) = 1
    /\ delivered[1][1].error = NoError
    /\ resolveCount[HostIpKey("h", 6)] = 1
    /\ resolveCount[HostIpKey("h", 4)] = 0
    /\ HostIpKey("h", 4) \notin DOMAIN resolveTasks

\* The {address, family} entries of an address list.
RecordsOf(addresses) ==
    [i \in 1..Len(addresses) |->
        RecordV(addresses[i].address, addresses[i].family)]

\* The codes with which a branch of a dual-family lookup ends with no data.
NoDataCodes == {"ENODATA", "ENOTFOUND"}

\* The queued callback e ends its branch with an error other than not-found.
OtherError(e) == e.kind = "error" /\ e.error.code \notin NoDataCodes

\* The result list of the family whose queued callback e runs: nothing after
\* not-found, else the addresses answered from the cache or held by the task
\* of the key when the callback runs.
BranchList(e) ==
    IF e.kind = "error" THEN <<>>
    ELSE IF e.kind = "value" /\ e.value.t = "array" THEN RecordsOf(e.value.items)
    ELSE IF e.kind = "value" THEN RecordsOf(<<e.value.items[1]>>)
    ELSE RecordsOf(resolveTasks[e.key].addresses)

\* The queued callback e finds no address to take and makes its lookup ask
\* the table again instead of ending.
Retries(e) ==
    e.kind = "getNextAddress" /\ resolveTasks[e.key].addresses = <<>>

\* The step runs the queued callback of the one branch of the dual-family
\* lookup c that has not ended, with an outcome that is not an error other
\* than not-found, the other branch having ended without such an error.
SecondBranchRuns(c) ==
    /\ RunsHead
    /\ Head(immediates).callback.call = c
    /\ lookups[c].family = 0
    /\ ~parallel[c].called
    /\ parallel[c].fired = Families \ {Head(immediates).callback.ipVersion}
    /\ ~OtherError(Head(immediates))

\* The step runs the callback of the second branch of the dual-family lookup
\* c to end, the first having ended without an error other than not-found.
EndsSecondBranch(c) ==
    /\ SecondBranchRuns(c)
    /\ ~Retries(Head(immediates))

\* The result lists of the two families when the second branch ends.
ListOfFamily(c, ipVersion) ==
    IF Head(immediates).callback.ipVersion = ipVersion
    THEN BranchList(Head(immediates))
    ELSE parallel[c].results[ipVersion].items

\* C13: when the second branch of a dual-family lookup with all=true ends and
\* neither branch failed with an error other than not-found, the caller
\* receives the family-4 result list followed by the family-6 result list,
\* every entry an {address, family} of its family (the case of two empty
\* lists apart).
C13_ConcatIPv4First ==
    [][\A c \in 1..Len(lookups) :
        /\ EndsSecondBranch(c)
        /\ lookups[c].all
        /\ ListOfFamily(c, 4) \o ListOfFamily(c, 6) # <<>>
        => /\ delivered'[c] = Append(delivered[c],
                Invocation(NoError,
                    <<ArrayV(ListOfFamily(c, 4) \o ListOfFamily(c, 6))>>))
           /\ \A f \in Families : \A i \in 1..Len(ListOfFamily(c, f)) :
                /\ ListOfFamily(c, f)[i].t = "record"
                /\ ListOfFamily(c, f)[i].family = f
      ]_vars

\* The (address, family) the branch of family ipVersion of the dual-family
\* lookup c ends with when the second branch ends: nothing after not-found
\* or from an empty list, else the address answered from the cache or the
\* next address of the task of the key when the callback runs.
BranchAddress(c, ipVersion) ==
    LET e == Head(immediates)
        task == resolveTasks[e.key]
    IN  IF e.callback.ipVersion # ipVersion
        THEN parallel[c].results[ipVersion].items
        ELSE IF e.kind = "error" THEN <<>>
        ELSE IF e.kind = "value"
        THEN <<StringV(e.value.items[1].address), NumberV(ipVersion)>>
        ELSE IF task.addresses = <<>> THEN <<>>
        ELSE <<StringV(getNextAddress(task).value.items[1].address),
               NumberV(ipVersion)>>

\* C14: when the second branch of a dual-family lookup with all false ends
\* and neither branch failed with an error other than not-found, the caller
\* receives the (address, 4) of the family-4 branch if that branch produced
\* an address, and otherwise the (address, 6) of the family-6 branch if that
\* one did.
C14_PreferIPv4 ==
    [][\A c \in 1..Len(lookups) :
        /\ EndsSecondBranch(c)
        /\ ~lookups[c].all
        /\ BranchAddress(c, 4) \o BranchAddress(c, 6) # <<>>
        => LET f == IF BranchAddress(c, 4) # <<>> THEN 4 ELSE 6
           IN  /\ IsSingleResult(BranchAddress(c, f))
               /\ OfFamily(BranchAddress(c, f), f)
               /\ delivered'[c] = Append(delivered[c],
                    Invocation(NoError, BranchAddress(c, f)))
      ]_vars

\* The outcome the queued callback e brings is no data: a not-found error
\* or an empty address list.
BringsNoData(e) ==
    IF e.kind = "error" THEN e.error.code \in NoDataCodes
    ELSE IF e.kind = "value" THEN e.value.items = <<>>
    ELSE resolveTasks[e.key].addresses = <<>>

\* The step runs the callback of the second branch of the dual-family lookup
\* c, and both branches have no data.
BothNoData(c) ==
    /\ SecondBranchRuns(c)
    /\ BringsNoData(Head(immediates))
    /\ \A f \in parallel[c].fired : parallel[c].results[f].items = <<>>

\* The invocation is a success with an empty or null result.
EmptySuccess(d) ==
    /\ d.error = NoError
    /\ \/ d.args = <<>>
       \/ \E i \in 1..Len(d.args) :
            \/ d.args[i].t = "undefined"
            \/ d.args[i].t = "array" /\ d.args[i].items = <<>>

\* C15: a dual-family lookup is answered with the not-found error (code
\* ENOTFOUND, the hostname) when its second branch brings its outcome and
\* both branches have no data, a not-found error or an empty list, and
\* neither another error; it is answered with code ENOTFOUND in no other
\* step; and it is never answered with a success whose result is empty or
\* null.
C15_NotFoundIffBothNoData ==
    [][\A c \in 1..Len(lookups) : lookups[c].family = 0 =>
        /\ BothNoData(c) =>
            delivered'[c] = Append(delivered[c],
                Invocation(makeNotFoundError(lookups[c].hostname, "", <<c, 0>>),
                           <<>>))
        /\ Len(delivered'[c]) > Len(delivered[c]) =>
            LET d == delivered'[c][Len(delivered'[c])]
            IN  /\ d.error.code = "ENOTFOUND" => BothNoData(c)
                /\ ~EmptySuccess(d)
      ]_vars

\* C16: when the queued callback of a branch of a dual-family lookup brings
\* an error other than not-found and the caller has not been answered, the
\* caller is answered with that error object itself, whatever the other
\* branch did or does; a caller once answered is not answered again.
C16_BranchErrorDelivered ==
    [][\A c \in 1..Len(lookups) : lookups[c].family = 0 =>
        /\ /\ RunsHead
           /\ Head(immediates).callback.call = c
           /\ OtherError(Head(immediates))
           /\ delivered[c] = <<>>
           => delivered'[c] = <<Invocation(Head(immediates).error, <<>>)>>
        /\ delivered[c] # <<>> => delivered'[c] = delivered[c]
        /\ Len(delivered'[c]) <= 1
      ]_vars

\* A dual-family lookup was answered with the resolver's error of one branch
\* while the resolver call of the other branch is still outstanding.
C16_Witness ==
    \E c \in 1..Len(lookups) :
        /\ lookups[c].family = 0
        /\ Len(delivered[c]) = 1
        /\ delivered[c][1].error.code = "ESERVFAIL"
        /\ delivered[c][1].error.inst[1] = "dns"
        /\ Cardinality(parallel[c].fired) = 1
        /\ \E call \in outstanding : call.ipVersion \notin parallel[c].fired

\* After the step the branch of family ipVersion of lookup c, whose key is
\* key, has made its request to the table: its callback waits on the
\* outstanding resolver call of the key, or its answer from the cache is
\* queued.
BranchRequested(c, key, ipVersion) ==
    LET cb == [call |-> c, ipVersion |-> ipVersion]
    IN  \/ /\ key \in DOMAIN resolveTasks'
           /\ \E i \in 1..Len(resolveTasks'[key].resolvedCallbacks) :
                resolveTasks'[key].resolvedCallbacks[i] = cb
           /\ Cardinality(OutstandingFor(key)') = 1
        \/ \E i \in (Len(immediates) + 1)..Len(immediates') :
                immediates'[i].callback = cb /\ immediates'[i].kind = "value"

\* C17: the step of a dual-family lookup() call makes the requests of both
\* branches: after it the callbacks of family 4 and of family 6 both wait on
\* an outstanding resolver call or have their cached answer queued, and a
\* key that had no task has had its resolver call issued, while no resolver
\* call has completed in between.
C17_BothIssuedAtOnce ==
    [][Len(lookups') = Len(lookups) + 1 /\ lookups'[Len(lookups')].family = 0 =>
        \A h \in Hostnames, f \in Families :
            lookups'[Len(lookups')].hostname = h =>
                /\ BranchRequested(Len(lookups) + 1, HostIpKey(h, f), f)
                /\ outstanding \subseteq outstanding'
                /\ HostIpKey(h, f) \notin DOMAIN resolveTasks =>
                        resolveCount'[HostIpKey(h, f)] = 1
      ]_vars

\* Right after a dual-family lookup, before anything else happened, the
\* resolver calls of both families are outstanding.
C17_Witness ==
    /\ Len(lookups) = 1
    /\ lookups[1].family = 0
    /\ \A f \in Families :
        /\ Cardinality(OutstandingFor(HostIpKey("h", f))) = 1
        /\ resolveCount[HostIpKey("h", f)] = 1
    /\ parallel[1].fired = {}
    /\ immediates = <<>>

\* C18 as stated: the callback of a dual-family lookup has been invoked only
\* if both of its branches have ended.
C18_OnlyAfterBoth ==
    \A c \in 1..Len(lookups) :
        lookups[c].family = 0 /\ delivered[c] # <<>> =>
            parallel[c].fired = Families

\* C18 amended: the callback of a dual-family lookup has been invoked with a
\* success or with the not-found error only if both of its branches have
\* ended; with any other error it has been invoked as soon as one branch
\* ended with that error, that of a resolver call of the lookup's hostname,
\* whether or not the other branch has ended.
C18_AfterBothUnlessError ==
    \A c \in 1..Len(lookups) :
        lookups[c].family = 0 /\ delivered[c] # <<>> =>
            LET d == delivered[c][1]
            IN  IF d.error = NoError \/ d.error.code \in NoDataCodes
                THEN parallel[c].fired = Families
                ELSE /\ parallel[c].fired # {}
                     /\ \E f \in parallel[c].fired :
                            /\ d.error.inst[1] = "dns"
                            /\ d.error.inst[2] = HostIpKey(lookups[c].hostname, f)

\* One branch of a dual-family lookup has ended with an address while the
\* resolver call of the other branch is outstanding, and the caller has not
\* been answered.
C18_Witness ==
    \E c \in 1..Len(lookups) : \E f \in Families :
        /\ lookups[c].family = 0
        /\ parallel[c].fired = {f}
        /\ parallel[c].results[f].t = "array"
        /\ parallel[c].results[f].items # <<>>
        /\ delivered[c] = <<>>
        /\ \E call \in outstanding : call.ipVersion # f

\* C19: when the queued callback of a single-family lookup brings the
\* resolver's error with code ENODATA, the caller receives a new error
\* object with code and errno ENOTFOUND, the hostname looked up and the
\* syscall of the resolver's error; an error with any other code it receives
\* as the object the resolver produced.
C19_NoDataBecomesNotFound ==
    [][RunsHead /\ Head(immediates).kind = "error"
            /\ lookups[Head(immediates).callback.call].family # 0 =>
        LET e == Head(immediates)
            c == e.callback.call
        IN  /\ Len(delivered'[c]) = Len(delivered[c]) + 1
            /\ SubSeq(delivered'[c], 1, Len(delivered[c])) = delivered[c]
            /\ LET d == delivered'[c][Len(delivered'[c])]
               IN  /\ d.args = <<>>
                   /\ IF e.error.code = "ENODATA"
                      THEN /\ d.error.code = "ENOTFOUND"
                           /\ d.error.errno = "ENOTFOUND"
                           /\ d.error.hostname = lookups[c].hostname
                           /\ d.error.syscall = e.error.syscall
                           /\ d.error.syscall = Syscall(lookups[c].family)
                           /\ d.error.inst[1] = "lookup"
                      ELSE d.error = e.error
      ]_vars

\* A family-6 lookup whose resolver call failed with ENODATA was answered
\* with the not-found error made by lookup(), carrying the syscall queryAaaa.
C19_Witness ==
    \E c \in 1..Len(lookups) :
        /\ lookups[c].family = 6
        /\ Len(delivered[c]) = 1
        /\ delivered[c][1].error.code = "ENOTFOUND"
        /\ delivered[c][1].error.inst[1] = "lookup"
        /\ delivered[c][1].error.syscall = "queryAaaa"
        /\ delivered[c][1].error.hostname = "h"

\* The step is the completion of a resolver call of key, with an error /
\* with addresses.
CompletesFor(key) == \E call \in OutstandingFor(key) : call \notin outstanding'

FailsFor(key) ==
    /\ CompletesFor(key)
    /\ Len(immediates') > Len(immediates)
    /\ immediates'[Len(immediates')].kind = "error"

SucceedsFor(key) == CompletesFor(key) /\ ~FailsFor(key)

\* The last resolver call issued for key has completed and failed.
LastCallFailed(key) ==
    /\ key \in DOMAIN resolveTasks
    /\ OutstandingFor(key) = {}
    /\ resolvedBy[key] < resolveCount[key]

\* C20: the completion of a resolver call with an error leaves the address
\* list of its key as it was, empty; the list of a key changes only in the
\* successful completion of a resolver call of the key; and a lookup of a
\* key whose last resolver call failed issues a new resolver call and queues
\* no answer, neither addresses nor the error.
C20_FailureNotCached ==
    [][\A key \in AllKeys :
        /\ FailsFor(key) =>
            /\ resolveTasks'[key].addresses = resolveTasks[key].addresses
            /\ resolveTasks'[key].addresses = <<>>
            /\ resolvedBy'[key] = resolvedBy[key]
        /\ /\ key \in DOMAIN resolveTasks'
           /\ resolveTasks'[key].addresses # <<>>
           /\ \/ key \notin DOMAIN resolveTasks
              \/ resolveTasks'[key].addresses # resolveTasks[key].addresses
           => SucceedsFor(key)
        /\ LastCallFailed(key) /\ LookupStepFor(key) =>
            /\ resolveCount'[key] = resolveCount[key] + 1
            /\ Cardinality(OutstandingFor(key)') = 1
            /\ immediates' = immediates
      ]_vars

\* The first lookup of a key was answered with the error of the first
\* resolver call; the second lookup, made after that, waits on the second
\* resolver call of the key.
C20_Witness ==
    \E key \in AllKeys :
        /\ Len(lookups) = 2
        /\ Len(delivered[1]) = 1
        /\ delivered[1][1].error.code = "ESERVFAIL"
        /\ delivered[2] = <<>>
        /\ resolveCount[key] = 2
        /\ resolvedBy[key] = 0
        /\ Cardinality(OutstandingFor(key)) = 1
        /\ Len(Waiting(key)) = 1
        /\ immediates = <<>>

\* The lookup() calls made for a key: those of its hostname for its family
\* or for both families.
LookupsFor(key) ==
    {c \in 1..Len(lookups) :
        \E f \in Families :
            /\ lookups[c].family \in {0, f}
            /\ HostIpKey(lookups[c].hostname, f) = key}

\* C21: for every key the resolver has been called at most as often as
\* lookup() has been called for the key.
C21_NoAutomaticRetry ==
    \A key \in AllKeys : resolveCount[key] <= Cardinality(LookupsFor(key))

\* The step is a call of lookup().
CallStep == callCount' = callCount + 1

\* JavaScript falsiness of a value: false, null, undefined, 0, NaN, ''.
Falsy(x) ==
    \/ x.t \in {"null", "undefined"}
    \/ x.t = "boolean" /\ x.v = "false"
    \/ x.t = "number" /\ x.v \in {"0", "NaN"}
    \/ x.t = "string" /\ x.v = ""

\* Options and callback that lookup() accepts for a hostname it accepts.
WellFormed(options, callback) ==
    /\ isFunction(options) \/ isNumber(options) \/ isObject(options)
    /\ isFunction(normalizeCallback(options, callback))
    /\ validFamily(normalizeOptions(options).family)

NullV == [t |-> "null"]

\* The answer of the empty-hostname shortcut to the call lk.
ShortcutAnswer(lk) ==
    IF lk.all
    THEN Invocation(NoError, <<ArrayV(<<>>)>>)
    ELSE Invocation(NoError,
                    <<NullV, NumberV(IF lk.family = 6 THEN 6 ELSE 4)>>)

\* C22: a call of lookup() with a falsy hostname (and options and callback
\* that are accepted) does not throw, issues no resolver call and does not
\* invoke the callback within the call; the callback of a call with the
\* empty hostname is invoked once, by a later run of the setImmediate queue,
\* with (null, []) when all is true and with (null, null, 6 or 4) otherwise.
C22_FalsyHostnameShortcut ==
    [][/\ (CallStep /\ Falsy(lastCall'[1])
                /\ WellFormed(lastCall'[2], lastCall'[3]))
            => /\ thrown' = ""
               /\ Len(lookups') = Len(lookups) + 1
               /\ resolveCount' = resolveCount
               /\ delivered'[Len(lookups')] = <<>>
       /\ \A c \in 1..Len(lookups) :
            (lookups[c].hostname = "" /\ delivered'[c] # delivered[c])
                => /\ RunsHead
                   /\ delivered'[c] = <<ShortcutAnswer(lookups[c])>>]_vars

\* C23: a call of lookup() throws 'hostname must be a string' exactly when
\* its hostname is neither a string nor falsy.
C23_ThrowsForNonStringOnly ==
    [][CallStep
        => (thrown' = "hostname must be a string"
                <=> (lastCall'[1].t # "string" /\ ~Falsy(lastCall'[1])))]_vars

\* C24: a call of lookup() with a string hostname and a function as
\* callback throws 'options must be an object or an ip version number'
\* whenever its middle argument is not a function, a number or a plain
\* object: for undefined, null, false, a string, an array and a Buffer.
C24_ThrowsForInvalidOptions ==
    [][(/\ CallStep
        /\ lastCall'[1].t = "string"
        /\ lastCall'[3].t = "function"
        /\ lastCall'[2].t \notin {"function", "number", "object"})
        => thrown' = "options must be an object or an ip version number"]_vars

\* What options.family reads as after the normalization of the arguments.
CallFamily(options) ==
    IF options.t = "number" THEN options.v
    ELSE IF options.t = "function" THEN "undefined"
    ELSE options.family

\* The arguments pass the checks of hostname, options and callback.
PassesTypeChecks(args) ==
    /\ args[1].t = "string"
    /\ args[2].t \in {"function", "number", "object", "array", "buffer"}
    /\ (IF args[2].t = "function" THEN args[2] ELSE args[3]).t = "function"

InvalidFamilyMessage ==
    "invalid family number, must be one of the {4, 6} or undefined"

\* C25: a call of lookup() whose arguments pass the checks of hostname,
\* options and callback and whose normalized options.family is not 4, 6 or
\* undefined throws 'invalid family number, must be one of the {4, 6} or
\* undefined'.
C25_ThrowsForInvalidFamily ==
    [][(/\ CallStep
        /\ PassesTypeChecks(lastCall')
        /\ CallFamily(lastCall'[2]) \notin {"4", "6", "undefined"})
        => thrown' = InvalidFamilyMessage]_vars

\* lookup('h', 5, cb) has thrown the error.
C25_Witness ==
    /\ lastCall # <<>>
    /\ lastCall[1] = JsValue("string", "h")
    /\ lastCall[2] = JsValue("number", "5")
    /\ lastCall[3] = FunctionValue
    /\ thrown = InvalidFamilyMessage

\* C26: a call of lookup() that throws leaves the callbacks invoked, the
\* callbacks registered, the setImmediate queue, the resolver calls issued
\* and outstanding, and the tasks (status, waiting callbacks, addresses) of
\* every key as they were.
C26_RejectionChangesNothing ==
    [][(CallStep /\ thrown' # "")
        => /\ lookups' = lookups
           /\ delivered' = delivered
           /\ parallel' = parallel
           /\ immediates' = immediates
           /\ outstanding' = outstanding
           /\ resolveCount' = resolveCount
           /\ resolveTasks' = resolveTasks]_vars

\* A call was rejected while a resolver call was outstanding, the addresses
\* of another key were cached and a callback was queued.
C26_Witness ==
    /\ thrown # ""
    /\ outstanding # {}
    /\ immediates # <<>>
    /\ \E key \in AllKeys : Populated(key)

\* The step leaves the program as the call that produced s leaves it (the
\* record of the arguments apart).
SameOutcome(s) ==
    /\ ~s.capped
    /\ lookups' = s.lookups
    /\ delivered' = s.delivered
    /\ parallel' = s.parallel
    /\ resolveTasks' = s.resolveTasks
    /\ outstanding' = s.outstanding
    /\ resolveCount' = s.resolveCount
    /\ immediates' = s.immediates
    /\ thrown' = s.thrown

\* C27: a call lookup(hostname, fn) leaves the program as the call
\* lookup(hostname, {}, fn) made in the same state leaves it, and is, when
\* accepted, a dual-family lookup in single-address mode; a call
\* lookup(hostname, n, cb) with a number n leaves the program as the call
\* lookup(hostname, {family: n}, cb) leaves it.
C27_ArgumentNormalization ==
    [][CallStep
        => /\ lastCall'[2].t = "function"
                => /\ SameOutcome(lookupArguments(Cur, lastCall'[1],
                                    OptionsObject("undefined", "undefined"),
                                    lastCall'[2]))
                   /\ thrown' = ""
                        => /\ Len(lookups') = Len(lookups) + 1
                           /\ lookups'[Len(lookups')].family = 0
                           /\ ~lookups'[Len(lookups')].all
           /\ lastCall'[2].t = "number"
                => SameOutcome(lookupArguments(Cur, lastCall'[1],
                                    OptionsObject(lastCall'[2].v, "undefined"),
                                    lastCall'[3]))]_vars

\* lookup('h', fn) was called and has issued the resolver calls of both
\* families.
C27_Witness ==
    /\ lastCall # <<>>
    /\ lastCall[1] = JsValue("string", "h")
    /\ lastCall[2] = FunctionValue
    /\ thrown = ""
    /\ {call.ipVersion : call \in outstanding} = {4, 6}

\* The {address, family} records of the addresses the resolver of family
\* ipVersion returned for the key, in the resolver's order.
AnswerRecords(key, ipVersion) ==
    [i \in 1..Len(answered[key]) |-> RecordV(answered[key][i].address, ipVersion)]

\* Every address of an answer comes with the family of the resolver that
\* returns it: (address, family) and {address, family}.
Tagged(args) ==
    \A i \in 1..Len(args) :
        /\ args[i].t = "string"
            => /\ i < Len(args)
               /\ args[i + 1].t = "number"
               /\ args[i].address \in FamilyAddresses(args[i + 1].family)
        /\ args[i].t = "record"
            => args[i].address \in FamilyAddresses(args[i].family)
        /\ args[i].t = "array"
            => \A j \in 1..Len(args[i].items) :
                args[i].items[j].t = "record"
                    => args[i].items[j].address
                            \in FamilyAddresses(args[i].items[j].family)

\* The list an answer carries holds one {address, family} record per address
\* the resolver returned, in the resolver's order: for a single-family lookup
\* the records of its key, for a dual-family lookup, per family, the records
\* of the family's key or none.
OneRecordPerAddress(lk, items) ==
    /\ \A j \in 1..Len(items) : items[j].t = "record"
    /\ lk.family # 0
        => items = AnswerRecords(HostIpKey(lk.hostname, lk.family), lk.family)
    /\ lk.family = 0
        => \A f \in Families :
            SelectSeq(items, LAMBDA r : r.family = f)
                \in {<<>>, AnswerRecords(HostIpKey(lk.hostname, f), f)}

\* C28: every address handed to a caller carries the family of the resolver
\* that returns it, and every list handed to a caller holds one
\* {address, family} record per address the resolver returned, in the
\* resolver's order.
C28_FamilyTagged ==
    [][\A c \in 1..Len(lookups) :
        (delivered'[c] # delivered[c]
            /\ delivered'[c][Len(delivered'[c])].error = NoError)
        => LET args == delivered'[c][Len(delivered'[c])].args
           IN  /\ Tagged(args)
               /\ \A i \in 1..Len(args) :
                    args[i].t = "array"
                        => OneRecordPerAddress(lookups[c], args[i].items)
      ]_vars

\* C29: the step in which lookup() is called invokes no callback, neither
\* the new one nor an earlier one, also when the key holds addresses: the
\* answer from the cache is queued behind the callbacks already queued. A
\* callback is invoked only by the step that runs its entry at the head of
\* the setImmediate queue, which registers nothing in that step.
C29_NeverSynchronous ==
    [][/\ Len(lookups') = Len(lookups) + 1
            => /\ delivered' = Append(delivered, <<>>)
               /\ \A key \in AllKeys :
                    (Populated(key) /\ LookupStepFor(key))
                        => /\ AnsweredFromCache(key)
                           /\ SubSeq(immediates', 1, Len(immediates))
                                = immediates
       /\ \A c \in 1..Len(lookups) :
            delivered'[c] # delivered[c]
                => /\ immediates # <<>>
                   /\ Head(immediates).callback.call = c
                   /\ immediates' = Tail(immediates)
                   /\ Len(lookups') = Len(lookups)]_vars

\* The first lookup was answered after its resolver call; a later lookup of
\* the key, answered from the cache, has its callback queued and not invoked.
C29_Witness ==
    /\ Len(lookups) >= 2
    /\ delivered[1] # <<>>
    /\ \E i \in 1..Len(immediates) :
        /\ immediates[i].kind = "value"
        /\ immediates[i].callback.call > 1
        /\ delivered[immediates[i].callback.call] = <<>>

\* The step is the successful completion of the resolver call of the key.
SuccessStep(key) ==
    /\ \E call \in outstanding : call.key = key /\ call \notin outstanding'
    /\ resolveTasks'[key].status = STATUS_RESOLVED

\* The (address, ttl) pairs the task of the key holds.
Held(task) ==
    [i \in 1..Len(task.addresses) |->
        [address |-> task.addresses[i].address, ttl |-> task.addresses[i].ttl]]

\* The step stored the addresses the resolver returned in the task of the
\* key and queued the waiting callbacks, in order, without running any.
StoredBeforeWaiters(key) ==
    /\ Held(resolveTasks'[key]) = answered'[key]
    /\ delivered' = delivered
    /\ Len(immediates') =
            Len(immediates) + Len(resolveTasks[key].resolvedCallbacks)
    /\ \A i \in 1..Len(resolveTasks[key].resolvedCallbacks) :
        /\ immediates'[Len(immediates) + i].callback =
                resolveTasks[key].resolvedCallbacks[i]
        /\ immediates'[Len(immediates) + i].kind # "error"

\* The last resolver call of the key succeeded and no lookup has made the
\* table resolve the key again: the waiting callbacks of the resolution are
\* queued, are running or have run.
Resolved(key) ==
    key \in DOMAIN resolveTasks /\ resolveTasks[key].status = STATUS_RESOLVED

\* C30 as stated: a successful completion stores the addresses in the task of
\* the key before any waiting callback runs, and every lookup of the key made
\* from then on, with callbacks of the resolution still queued or from
\* inside one of them, is answered from the cache without a resolver call.
C30_PopulatedBeforeWaiters ==
    [][\A key \in AllKeys :
        /\ SuccessStep(key) => StoredBeforeWaiters(key)
        /\ (Resolved(key) /\ LookupStepFor(key))
            => /\ resolveCount'[key] = resolveCount[key]
               /\ AnsweredFromCache(key)
      ]_vars

\* C30, amended: the same for a resolver call that returned at least one
\* address; after a call that returned no address the task holds none, and
\* a lookup of the key made from then on issues a new resolver call.
C30_PopulatedWhenAddresses ==
    [][\A key \in AllKeys :
        /\ SuccessStep(key) => StoredBeforeWaiters(key)
        /\ (Resolved(key) /\ answered[key] # <<>> /\ LookupStepFor(key))
            => /\ resolveCount'[key] = resolveCount[key]
               /\ AnsweredFromCache(key)
        /\ (Resolved(key) /\ answered[key] = <<>> /\ LookupStepFor(key))
            => /\ resolveCount'[key] = resolveCount[key] + 1
               /\ ~AnsweredFromCache(key)
      ]_vars

\* A lookup made between the completion and the deferred deliveries: its
\* answer from the cache is queued behind a callback of the resolution that
\* has not run, after a single resolver call.
C30_Witness ==
    \E key \in AllKeys : \E i, j \in 1..Len(immediates) :
        /\ i < j
        /\ immediates[i].key = key
        /\ immediates[i].kind \in {"getAddresses", "getNextAddress"}
        /\ immediates[i].via = resolvedBy[key]
        /\ immediates[j].key = key
        /\ immediates[j].kind = "value"
        /\ answered[key] # <<>>
        /\ resolveCount[key] = 1

\* The task of the key is in flight: ResolveTask.STATUS_RESOLVING.
InFlight(key) ==
    key \in DOMAIN resolveTasks /\ resolveTasks[key].status = STATUS_RESOLVING

\* The step is the completion of a resolver call of the key.
CompletionStep(key) ==
    \E call \in outstanding : call.key = key /\ call \notin outstanding'

\* C31: after every step a key is in flight exactly while one resolver call
\* for it is outstanding, and the step in which a resolver call completes,
\* with success or with failure, leaves its key not in flight.
C31_InFlightIffOutstanding ==
    [][\A key \in AllKeys :
        /\ InFlight(key)' <=> Cardinality(OutstandingFor(key)') = 1
        /\ Cardinality(OutstandingFor(key)') <= 1
        /\ CompletionStep(key) => ~InFlight(key)'
      ]_vars

\* One key was resolved and one failed, neither is in flight nor has a call
\* outstanding.
C31_Witness ==
    \E k1, k2 \in AllKeys :
        /\ k1 \in DOMAIN resolveTasks /\ k2 \in DOMAIN resolveTasks
        /\ resolveTasks[k1].status = STATUS_RESOLVED
        /\ resolveTasks[k2].status = STATUS_UNRESOLVED
        /\ resolveCount[k1] >= 1 /\ resolveCount[k2] >= 1
        /\ outstanding = {}

\* The callback on whose behalf the step calls the table: that of the new
\* lookup() call, or the queued one that runs and asks the table again.
CallerOf(key, ipVersion) ==
    IF Len(lookups') = Len(lookups) + 1
    THEN [call |-> Len(lookups'), ipVersion |-> ipVersion]
    ELSE Head(immediates).callback

\* C32: a step that issues a resolver call for a key leaves the callback of
\* the caller that caused it in the waiting list of the key, with the call
\* outstanding; and the completion of a resolver call, whenever it comes,
\* queues the outcome for every callback of the waiting list, the first
\* included: the error of the call, or the addresses it stored.
C32_AttachedBeforeLaunch ==
    [][\A h \in Hostnames \cup {""}, f \in Families :
        /\ resolveCount'[HostIpKey(h, f)] > resolveCount[HostIpKey(h, f)]
            => /\ Waiting(HostIpKey(h, f))' = <<CallerOf(HostIpKey(h, f), f)>>
               /\ Cardinality(OutstandingFor(HostIpKey(h, f))') = 1
        /\ \A call \in OutstandingFor(HostIpKey(h, f)) :
            call \notin outstanding'
                => /\ Waiting(HostIpKey(h, f)) # <<>>
                   /\ Len(immediates') =
                        Len(immediates) + Len(Waiting(HostIpKey(h, f)))
                   /\ \A i \in 1..Len(Waiting(HostIpKey(h, f))) :
                        LET e == immediates'[Len(immediates) + i]
                        IN  /\ e.callback = Waiting(HostIpKey(h, f))[i]
                            /\ e.via = call.id
                            /\ e.key = call.key
                            /\ e.kind = "error"
                                <=> resolveTasks'[call.key].status
                                        = STATUS_UNRESOLVED
      ]_vars

\* The caller that caused the only resolver call of its key was answered,
\* the resolver having completed in the step after the lookup.
C32_Witness ==
    /\ Len(lookups) = 1
    /\ lookups[1].family # 0
    /\ resolveCount[HostIpKey(lookups[1].hostname, lookups[1].family)] = 1
    /\ Len(delivered[1]) = 1
    /\ outstanding = {}

\* C33: a lookup of a key made once any address the key holds has passed its
\* expiry time finds a cache miss: it is not answered from the addresses
\* held and waits on a resolver call of the key; and a lookup answered from
\* the cache with a list receives all the addresses the key holds.
C33_WholeEntryExpiry ==
    [][\A key \in AllKeys :
        /\ (Populated(key) /\ Expired(key) /\ LookupStepFor(key))
            => /\ ~AnsweredFromCache(key)
               /\ Len(Waiting(key)') = Len(Waiting(key)) + 1
               /\ OutstandingFor(key)' # {}
        /\ (Populated(key) /\ LookupStepFor(key) /\ lookups'[Len(lookups')].all
                /\ AnsweredFromCache(key))
            => immediates'[Len(immediates')].value.items
                    = resolveTasks[key].addresses
      ]_vars

\* The addresses the task of the key holds, none when it has no task.
TaskAddresses(key) ==
    IF key \in DOMAIN resolveTasks THEN resolveTasks[key].addresses ELSE <<>>

\* C34: the step in which a resolver call of a key succeeds stores, for every
\* address returned, the clock of that step plus ttl * 1000 as its expiry
\* time; when the call was launched at an earlier clock the expiry time is
\* not the one counted from the launch; and no other step changes the
\* addresses a task holds.
C34_ExpiryFromReceipt ==
    [][\A key \in AllKeys :
        /\ SuccessStep(key) =>
            /\ Len(TaskAddresses(key)') = Len(answered'[key])
            /\ \A i \in 1..Len(TaskAddresses(key)') :
                /\ TaskAddresses(key)'[i].expiredTime =
                        now + answered'[key][i].ttl * 1000
                /\ \A call \in OutstandingFor(key) : call.at < now =>
                        TaskAddresses(key)'[i].expiredTime #
                            call.at + answered'[key][i].ttl * 1000
        /\ ~SuccessStep(key) => TaskAddresses(key)' = TaskAddresses(key)
      ]_vars

\* Every address the task of the key holds has reached its expiry time.
Exhausted(key) ==
    /\ Populated(key)
    /\ \A a \in AddressesOf(key) : now >= a.expiredTime

\* The step runs a callback of a single-family lookup that was queued by the
\* resolver call whose addresses the key holds, all of them exhausted.
RunsExhausted ==
    /\ RunsHead
    /\ Head(immediates).via > 0
    /\ Head(immediates).kind # "error"
    /\ lookups[Head(immediates).callback.call].family # 0
    /\ Exhausted(Head(immediates).key)
    /\ Head(immediates).via = resolvedBy[Head(immediates).key]

\* C35: a resolver call that succeeds with a non-empty list queues every
\* callback waiting on the key, and its addresses are replaced by no later
\* call; and when such a callback of a single-family lookup runs after every
\* address has reached its expiry time, the caller gets its first and only
\* answer in that step, a success whose addresses are addresses of the
\* resolution that queued it, and the step issues no resolver call and
\* attaches no callback.
C35_ExhaustedTtlStillAnswered ==
    [][/\ \A key \in AllKeys :
            /\ (SuccessStep(key) /\ answered'[key] # <<>>)
                    => StoredBeforeWaiters(key)
            /\ resolvedBy'[key] # resolvedBy[key] => answered[key] = <<>>
       /\ RunsExhausted =>
            LET e == Head(immediates)
                c == e.callback.call
            IN  /\ delivered[c] = <<>>
                /\ Len(delivered'[c]) = 1
                /\ delivered'[c][1].error = NoError
                /\ AddressesIn(delivered'[c][1].args) # {}
                /\ AddressesIn(delivered'[c][1].args) \subseteq
                        {answered[e.key][i].address :
                            i \in 1..Len(answered[e.key])}
                /\ resolveCount' = resolveCount
                /\ outstanding' = outstanding
                /\ resolveTasks'[e.key].resolvedCallbacks =
                        resolveTasks[e.key].resolvedCallbacks
      ]_vars

\* Two lookups waited on one resolver call that answered with TTL 0 at clock
\* 0; the clock has advanced past the expiry time, the first caller has its
\* successful answer and the callback of the second is still queued.
C35_Witness ==
    /\ Len(lookups) = 2
    /\ now = TickMs
    /\ \E key \in AllKeys :
        /\ resolveCount[key] = 1
        /\ Exhausted(key)
        /\ \A a \in AddressesOf(key) : a.ttl = 0 /\ a.expiredTime = 0
        /\ Len(immediates) = 1
        /\ immediates[1].key = key
        /\ immediates[1].via = 1
        /\ immediates[1].callback.call = 2
    /\ Len(delivered[1]) = 1
    /\ delivered[1][1].error = NoError

\* The addresses of the last successful resolver call of the key, in order.
LastAnswer(key) ==
    [i \in 1..Len(answered[key]) |-> answered[key][i].address]

\* The step answers a single-family lookup with a success from a key whose
\* last successful resolver call was not the first call for the key.
AnswersAfterReResolution ==
    /\ RunsHead
    /\ lookups[Head(immediates).callback.call].family # 0
    /\ resolvedBy[Head(immediates).key] >= 2
    /\ Len(delivered'[Head(immediates).callback.call]) =
            Len(delivered[Head(immediates).callback.call]) + 1
    /\ delivered'[Head(immediates).callback.call]
            [Len(delivered'[Head(immediates).callback.call])].error = NoError

\* C36: when a resolver call of a key that is not the first one succeeds, the
\* task holds exactly the list that call returned; every success a
\* single-family lookup is answered with after that carries the whole list
\* in order or one address of it; and the first address selected after the
\* resolution is the first address of its list.
C36_ReplacedCompletely ==
    [][/\ \A key \in AllKeys :
            (SuccessStep(key)
                /\ \E call \in OutstandingFor(key) :
                        call.id >= 2 /\ call \notin outstanding')
            => /\ Held(resolveTasks'[key]) = answered'[key]
               /\ selected'[key] = <<>>
       /\ \A key \in AllKeys :
            (resolvedBy'[key] >= 2 /\ selected'[key] # <<>>)
                => selected'[key][1] = LastAnswer(key)'[1]
       /\ AnswersAfterReResolution =>
            LET e == Head(immediates)
                c == e.callback.call
                args == delivered'[c][Len(delivered'[c])].args
            IN  IF IsArrayResult(args)
                THEN [i \in 1..Len(args[1].items) |->
                        args[1].items[i].address] = LastAnswer(e.key)
                ELSE /\ IsSingleResult(args)
                     /\ \E i \in 1..Len(LastAnswer(e.key)) :
                            args[1].address = LastAnswer(e.key)[i]
      ]_vars

\* The second resolver call of a key returned two addresses, after which a
\* single-address lookup was answered with the first of them.
C36_Witness ==
    \E key \in AllKeys :
        /\ resolvedBy[key] = 2
        /\ Len(answered[key]) = 2
        /\ selected[key] = <<answered[key][1].address>>
        /\ \E c \in 1..Len(lookups) :
            /\ lookups[c].family # 0
            /\ Len(delivered[c]) = 1
            /\ delivered[c][1].error = NoError
            /\ IsSingleResult(delivered[c][1].args)
            /\ delivered[c][1].args[1].address = answered[key][1].address

\* The round-robin cursor of the list the task of the key holds.
TaskCursor(key) ==
    IF key \in DOMAIN resolveTasks THEN resolveTasks[key].rr ELSE NoCursor

\* The step moved the cursor of the key one position on, cyclically.
Advanced(key) ==
    TaskCursor(key)' =
        IF TaskCursor(key) = NoCursor THEN 0
        ELSE (TaskCursor(key) + 1) % Len(TaskAddresses(key))

\* The step is a single-family lookup() call with the given all that is
\* answered from the addresses the key holds.
HitStep(key, all) ==
    /\ LookupStepFor(key)
    /\ lookups'[Len(lookups')].all = all
    /\ AnsweredFromCache(key)

\* The step runs the callback a completion queued for a single-family
\* lookup() call that waited on the key.
WaiterStep(key) ==
    /\ RunsHead
    /\ Head(immediates).key = key
    /\ Head(immediates).via > 0
    /\ Head(immediates).kind # "error"
    /\ lookups[Head(immediates).callback.call].family # 0

\* The step hands the waiting caller of the key a single address.
SingleDelivery(key) ==
    /\ WaiterStep(key)
    /\ Len(delivered'[Head(immediates).callback.call]) =
            Len(delivered[Head(immediates).callback.call]) + 1
    /\ IsSingleResult(delivered'[Head(immediates).callback.call]
            [Len(delivered'[Head(immediates).callback.call])].args)

\* The step answers a waiting all-mode lookup() call of the key.
AllModeDelivery(key) ==
    /\ WaiterStep(key)
    /\ lookups[Head(immediates).callback.call].all

\* What a step does to the cursors of the keys that hold addresses.
CursorStep ==
    \A key \in AllKeys : Populated(key) =>
        /\ (HitStep(key, FALSE) \/ SingleDelivery(key)) =>
            /\ Advanced(key)
            /\ \A other \in AllKeys \ {key} :
                    TaskCursor(other)' = TaskCursor(other)
        /\ (HitStep(key, TRUE) \/ AllModeDelivery(key)) =>
            \A any \in AllKeys : TaskCursor(any)' = TaskCursor(any)
        /\ HitStep(key, TRUE) =>
            immediates'[Len(immediates')].value.items = TaskAddresses(key)
        /\ AllModeDelivery(key) =>
            LET c == Head(immediates).callback.call
            IN  /\ Len(delivered'[c]) = Len(delivered[c]) + 1
                /\ delivered'[c][Len(delivered'[c])].error = NoError
                /\ IsArrayResult(delivered'[c][Len(delivered'[c])].args)
                /\ [i \in 1..Len(delivered'[c][Len(delivered'[c])]
                                    .args[1].items) |->
                        delivered'[c][Len(delivered'[c])]
                            .args[1].items[i].address]
                    = [i \in 1..Len(TaskAddresses(key)) |->
                        TaskAddresses(key)[i].address]
        /\ ~(HitStep(key, FALSE) \/ SingleDelivery(key)) =>
            TaskCursor(key)' = TaskCursor(key)

\* C37: on a key that holds addresses, every step that selects the address
\* of a single-address answer (a single-address lookup answered from the
\* cache, a waiting caller handed a single address) moves the key's cursor
\* one position on, cyclically, and no other cursor; every step that answers
\* an all-mode lookup leaves all cursors as they are and hands over the full
\* list in the resolver's order; and no other step moves the key's cursor.
C37_OnlySingleMovesCursor == [][CursorStep]_vars

\* C38: after every step, a key with callbacks waiting has a resolver call
\* outstanding; the step in which a resolver call of a key completes, with a
\* success or with an error, leaves no callback waiting on the key; and a
\* step that attaches a callback to a key leaves a resolver call of the key
\* outstanding, one it found outstanding or one it issued.
C38_WaitingOnlyWhileOutstanding ==
    [][\A key \in AllKeys :
        /\ Waiting(key)' # <<>> => OutstandingFor(key)' # {}
        /\ CompletionStep(key) =>
            Waiting(key)' = <<>> /\ OutstandingFor(key)' = {}
        /\ Len(Waiting(key)') > Len(Waiting(key)) =>
            /\ OutstandingFor(key)' # {}
            /\ OutstandingFor(key) \subseteq OutstandingFor(key)'
            /\ OutstandingFor(key) = {} => resolveCount'[key] > resolveCount[key]
      ]_vars

\* Two lookups waited on the one resolver call of a key; the call has
\* completed, both callbacks are queued and none is waiting.
C38_Witness ==
    \E key \in AllKeys :
        /\ resolveCount[key] = 1
        /\ OutstandingFor(key) = {}
        /\ key \in DOMAIN resolveTasks
        /\ Waiting(key) = <<>>
        /\ Len(immediates) = 2
        /\ \A i \in 1..2 :
            /\ immediates[i].key = key
            /\ immediates[i].via = 1
            /\ immediates[i].callback.call = i

\* The last resolver call of the key succeeded with an empty list and the
\* key has not been resolved again.
EmptyEntry(key) == Resolved(key) /\ ~Populated(key)

\* C39: a single-family lookup, single-address or all-mode, of a key whose
\* last resolver call succeeded with an empty list is not answered from the
\* cache: the step queues nothing, attaches the caller's callback and issues
\* a resolver call, after which exactly one call of the key is outstanding;
\* and no step queues an answer taken from a key that holds no address.
C39_EmptyListIsNoHit ==
    [][/\ \A h \in Hostnames \cup {""}, f \in Families :
            (EmptyEntry(HostIpKey(h, f)) /\ LookupStepFor(HostIpKey(h, f)))
            => /\ immediates' = immediates
               /\ OutstandingFor(HostIpKey(h, f)) = {}
               /\ resolveCount'[HostIpKey(h, f)] =
                        resolveCount[HostIpKey(h, f)] + 1
               /\ Cardinality(OutstandingFor(HostIpKey(h, f))') = 1
               /\ Waiting(HostIpKey(h, f))' =
                        <<CallerOf(HostIpKey(h, f), f)>>
       /\ \A i \in (Len(immediates) + 1)..Len(immediates') :
            immediates'[i].kind = "value" =>
                /\ Populated(immediates'[i].key)
                /\ immediates'[i].value.items # <<>>
      ]_vars

\* The first resolver call of a key succeeded with an empty list; an
\* all-mode lookup made afterwards issued the second call, which is
\* outstanding with that lookup's callback waiting.
C39_Witness ==
    \E key \in AllKeys :
        /\ Len(lookups) = 2
        /\ lookups[2].all
        /\ resolvedBy[key] = 1
        /\ answered[key] = <<>>
        /\ resolveCount[key] = 2
        /\ Cardinality(OutstandingFor(key)) = 1
        /\ Len(Waiting(key)) >= 1
        /\ Waiting(key)[1].call = 2
        /\ delivered[2] = <<>>

----------------------------------------------------------------------------
(* HostIpKey over hostnames that contain the key's own separator *)

\* Hostnames of which one is another followed by "_4" or "_6".
NameHostnames == {"h", "h_4", "h_6"}

NamePairs == NameHostnames \X Families

NameKeys == {HostIpKey(p[1], p[2]) : p \in NamePairs}

InitNames ==
    /\ lookups = <<>>
    /\ delivered = <<>>
    /\ parallel = <<>>
    /\ resolveTasks = <<>>
    /\ outstanding = {}
    /\ resolveCount = [k \in NameKeys |-> 0]
    /\ immediates = <<>>
    /\ now = 0
    /\ selected = [k \in NameKeys |-> <<>>]
    /\ served = [k \in NameKeys |-> <<>>]
    /\ resolvedBy = [k \in NameKeys |-> 0]
    /\ overtaken = [k \in NameKeys |-> FALSE]
    /\ stale = [k \in NameKeys |-> FALSE]
    /\ answered = [k \in NameKeys |-> <<>>]
    /\ callCount = 0
    /\ lastCall = <<>>
    /\ thrown = ""

\* lookup(hostname, {family, all}, callback) for any of the hostnames.
NameLookup ==
    /\ Len(lookups) < MaxNameLookups
    /\ \E p \in NamePairs, all \in BOOLEAN :
            Commit(lookup(Cur, p[1], p[2], all))
    /\ UNCHANGED now

NextNames == NameLookup \/ ResolverError \/ ResolverSuccess \/ RunImmediate

SpecNames == InitNames /\ [][NextNames]_vars

\* The (hostname, family) pairs looked up so far whose key is key.
PairsOf(key) ==
    {<<lookups[c].hostname, lookups[c].family>> :
        c \in {d \in 1..Len(lookups) :
                HostIpKey(lookups[d].hostname, lookups[d].family) = key}}

\* C40: two (hostname, family) pairs have the same key exactly when they are
\* the same pair, hostnames containing "_4" or "_6" included; so every task
\* belongs to exactly one pair looked up, the tasks are as many as the pairs
\* looked up, the callbacks waiting on a resolver call are those of lookups
\* of the call's hostname and family, and every queued callback is queued
\* under the key of its own lookup.
C40_KeyInjective ==
    /\ \A p \in NamePairs, q \in NamePairs :
            HostIpKey(p[1], p[2]) = HostIpKey(q[1], q[2]) <=> p = q
    /\ \A key \in DOMAIN resolveTasks : Cardinality(PairsOf(key)) = 1
    /\ Cardinality(DOMAIN resolveTasks) =
            Cardinality({<<lookups[c].hostname, lookups[c].family>> :
                            c \in 1..Len(lookups)})
    /\ \A call \in outstanding :
            \A i \in 1..Len(Waiting(call.key)) :
                /\ lookups[Waiting(call.key)[i].call].hostname = call.hostname
                /\ lookups[Waiting(call.key)[i].call].family = call.ipVersion
    /\ \A i \in 1..Len(immediates) :
            PairsOf(immediates[i].key) =
                {<<lookups[immediates[i].callback.call].hostname,
                   lookups[immediates[i].callback.call].family>>}

\* Hostname "h" was looked up for family 4 and hostname "h_4" for family 6:
\* the first key holds addresses while the resolver call of the second is
\* still outstanding.
C40_Witness ==
    /\ Len(lookups) = 2
    /\ lookups[1].hostname = "h" /\ lookups[1].family = 4
    /\ lookups[2].hostname = "h_4" /\ lookups[2].family = 6
    /\ Populated(HostIpKey("h", 4))
    /\ ~Populated(HostIpKey("h_4", 6))
    /\ \E call \in outstanding :
        call.hostname = "h_4" /\ call.key = HostIpKey("h_4", 6)
    /\ Cardinality(DOMAIN resolveTasks) = 2
====
